---- MODULE Spec2Model ----
\* koruma: the annotation aggregator (parse_field), the derive expansion
\* (expand_koruma) and the validate() body that the expansion emits.
\*
\* Types are written as the chain of their single-argument generic
\* constructors: <<"Option", "Vec", "i32">> is Option<Vec<i32>>; the leaf "_"
\* is the inference placeholder; "&" and "[]" are the reference and the slice
\* constructor, which are not path types.  Values carry a tag: <<"Int", n>>,
\* <<"None">>, <<"Some", v>>, <<"Vec", seq>>, <<"Struct", n>>.
EXTENDS Integers, Sequences, FiniteSets, TLC

VARIABLES
    pf_field,    \* the syn::Field handed to parse_field
    pf_result,   \* the ParseFieldResult it returned
    pf_done,     \* whether parse_field has returned
    input,       \* the DeriveInput handed to expand_koruma
    gen,         \* the result of expand_koruma (the generated impl)
    logic,       \* what each validator's Validate::validate rejects
    rec,         \* the record validate() was last called on (self)
    result,      \* what that call returned: "none", "Ok" or "Err"
    error,       \* the aggregate error value that call built
    calls,       \* the validator invocations that call made, in order
    prev_result, \* what the call before that one returned ("none" if there was none)
    tn,          \* what the last call of try_new was given and returned
    cg_in,       \* one validator on one field, as handed to the code generator
    cg_out,      \* what the generator emitted for it
    syn_in,      \* the text written inside one #[koruma(...)]
    syn_out,     \* what parse_args returned for it
    shared,      \* a record that several threads hold a shared reference to
    threads      \* each thread's call of validate() on it: position and locals

vars == <<pf_field, pf_result, pf_done, input, gen, logic, rec, result, error, calls, prev_result,
          tn, cg_in, cg_out, syn_in, syn_out, shared, threads>>

parseVars == <<pf_field, pf_result, pf_done>>
deriveVars == <<input, gen, logic, rec, result, error, calls, prev_result, tn>>
codegenVars == <<cg_in, cg_out>>
syntaxVars == <<syn_in, syn_out>>
threadVars == <<shared, threads>>

\* ---------------------------------------------------------------- bounds
MaxItems == 3    \* items written in one #[koruma(...)]
MaxAttrs == 3    \* annotation occurrences on the field given to parse_field
MaxVal == 1      \* scalar values are 0..MaxVal
MaxLen == 2      \* collection values have at most MaxLen elements
MaxDepth == 2    \* generic constructors around the leaf of a type
MaxArgs == 2     \* arguments written on one validator
MaxStructAttrs == 2  \* attributes written on the struct

\* ---------------------------------------------------------------- types
NoType == <<>>

\* Type::Path: every type but the placeholder (Type::Infer), a reference
\* (Type::Reference) and a slice (Type::Slice).
is_type_path(ty) == Len(ty) >= 1 /\ ty[1] \notin {"_", "&", "[]"}

option_inner_type(ty) ==
    IF Len(ty) > 1 /\ ty[1] = "Option" THEN Tail(ty) ELSE NoType

\* A variant that takes the element type of any generic type.
vec_inner_type_any_collection(ty) ==
    IF Len(ty) > 1 /\ ty[1] \notin {"Option", "&", "[]"} THEN Tail(ty) ELSE NoType

vec_inner_type(ty) ==
    IF Len(ty) > 1 /\ ty[1] = "Vec" THEN Tail(ty) ELSE NoType

is_option_type(ty) == option_inner_type(ty) # NoType

is_option_infer_type(ty) ==
    Len(ty) > 1 /\ ty[1] = "Option" /\ Tail(ty) = <<"_">>

\* Option::unwrap_or
unwrap_or(opt, dflt) == IF opt = NoType THEN dflt ELSE opt

first_generic_arg(ty) == IF Len(ty) > 1 /\ is_type_path(ty) THEN Tail(ty) ELSE NoType

RECURSIVE contains_infer_type(_)
contains_infer_type(ty) ==
    IF ty = <<"_">> THEN TRUE
    ELSE IF Len(ty) > 1 /\ is_type_path(ty) THEN contains_infer_type(Tail(ty))
    ELSE FALSE

RECURSIVE substitute_infer_type(_, _)
substitute_infer_type(ty, infer_ty) ==
    IF ty = <<"_">> THEN infer_ty
    ELSE IF Len(ty) > 1 /\ is_type_path(ty)
        THEN <<ty[1]>> \o substitute_infer_type(Tail(ty), infer_ty)
    ELSE ty

effective_validation_type(field_ty, validate_each) ==
    LET after_vec == IF validate_each THEN unwrap_or(vec_inner_type(field_ty), field_ty)
                     ELSE field_ty
    IN unwrap_or(option_inner_type(after_vec), after_vec)

\* ---------------------------------------------------------------- validators
\* ValidatorAttr { validator: Path, infer_type, explicit_type, args }
ValidatorAttr(path, infer, explicit) ==
    [validator |-> path, infer_type |-> infer, explicit_type |-> explicit, args |-> <<>>]

name(v) == v.validator[Len(v.validator)]

validator_wants_full_type(v) ==
    v.explicit_type # NoType /\ is_option_infer_type(v.explicit_type)

\* ---------------------------------------------------------------- attributes
\* One attribute of a field, with the outcome of parsing its content as a
\* KorumaAttr.  is_koruma is FALSE for an attribute that is not a koruma one
\* (is_koruma_attr returned None); ok is FALSE when parsing returned Err.
KorumaAttr(fvs, evs, skip, nested, newtype) ==
    [is_koruma |-> TRUE, ok |-> TRUE,
     field_validators |-> fvs, element_validators |-> evs,
     is_skip |-> skip, is_nested |-> nested, is_newtype |-> newtype]

SkipAttr == KorumaAttr(<<>>, <<>>, TRUE, FALSE, FALSE)
NestedAttr == KorumaAttr(<<>>, <<>>, FALSE, TRUE, FALSE)
NewtypeAttr == KorumaAttr(<<>>, <<>>, FALSE, FALSE, TRUE)
ValidatorsAttr(fvs, evs) == KorumaAttr(fvs, evs, FALSE, FALSE, FALSE)
MalformedAttr == [KorumaAttr(<<>>, <<>>, FALSE, FALSE, FALSE) EXCEPT !.ok = FALSE]
OtherAttr == [KorumaAttr(<<>>, <<>>, FALSE, FALSE, FALSE) EXCEPT !.is_koruma = FALSE]

\* ---------------------------------------------------------------- texts
\* The text inside one #[koruma(...)]: kind says where the attribute stands
\* ("field" or "struct"), items is what was written and tokens the token
\* stream the compiler makes of it.
NoText == [kind |-> "none", items |-> <<>>, tokens |-> <<>>]
NoParsed == [done |-> FALSE]

\* ---------------------------------------------------------------- threads
Threads == {"t1", "t2"}
NoShared == [set |-> FALSE, self |-> <<>>]
NoCall == [pc |-> 0, returned |-> FALSE, has_error |-> FALSE, error |-> <<>>,
           calls |-> <<>>, result |-> "none"]
NoThreads == [t \in Threads |-> NoCall]

\* ---------------------------------------------------------------- parse_field
NoError == [type |-> "none", validator |-> "", field |-> ""]
SyntaxError == [type |-> "syntax", validator |-> "", field |-> ""]
DuplicateError(v, f) == [type |-> "duplicate validator", validator |-> v, field |-> f]
DuplicateElementError(v, f) ==
    [type |-> "duplicate element validator", validator |-> v, field |-> f]

FieldInfo(n, ty, fvs, evs, nested, newtype) ==
    [name |-> n, ty |-> ty, field_validators |-> fvs, element_validators |-> evs,
     is_nested |-> nested, is_newtype |-> newtype]

NoInfo == FieldInfo("", NoType, <<>>, <<>>, FALSE, FALSE)

ParseValid(info) == [kind |-> "Valid", info |-> info, error |-> NoError]
ParseSkip == [kind |-> "Skip", info |-> NoInfo, error |-> NoError]
ParseError(e) == [kind |-> "Error", info |-> NoInfo, error |-> e]

\* A variant that drops a repeated name instead of reporting it.
RECURSIVE collect_validators_dedup(_, _, _, _)
collect_validators_dedup(vs, i, all, seen) ==
    IF i > Len(vs) THEN [dup |-> "", all |-> all, seen |-> seen]
    ELSE IF name(vs[i]) \in seen THEN collect_validators_dedup(vs, i + 1, all, seen)
    ELSE collect_validators_dedup(vs, i + 1, Append(all, vs[i]), seen \cup {name(vs[i])})

\* The inner `for validator in ...` loop of parse_field over one slot's
\* validators: insert each name into the slot's seen set, stop at the first
\* name already there.
RECURSIVE collect_validators(_, _, _, _)
collect_validators(vs, i, all, seen) ==
    IF i > Len(vs) THEN [dup |-> "", all |-> all, seen |-> seen]
    ELSE IF name(vs[i]) \in seen THEN [dup |-> name(vs[i]), all |-> all, seen |-> seen]
    ELSE collect_validators(vs, i + 1, Append(all, vs[i]), seen \cup {name(vs[i])})

\* A variant that keeps one seen-name set for both slots.
RECURSIVE parse_attrs_shared_seen(_, _, _, _)
parse_attrs_shared_seen(attrs, i, fname, st) ==
    IF i > Len(attrs) THEN st
    ELSE LET attr == attrs[i] IN
        IF ~attr.is_koruma THEN parse_attrs_shared_seen(attrs, i + 1, fname, st)
        ELSE IF ~attr.ok THEN [st EXCEPT !.error = SyntaxError]
        ELSE IF attr.is_skip
            THEN parse_attrs_shared_seen(attrs, i + 1, fname, [st EXCEPT !.is_skip = TRUE])
        ELSE IF attr.is_nested
            THEN parse_attrs_shared_seen(attrs, i + 1, fname, [st EXCEPT !.is_nested = TRUE])
        ELSE IF attr.is_newtype
            THEN parse_attrs_shared_seen(attrs, i + 1, fname, [st EXCEPT !.is_newtype = TRUE])
        ELSE LET f == collect_validators(attr.field_validators, 1,
                                         st.all_field_validators, st.seen_field_validators)
             IN IF f.dup # "" THEN [st EXCEPT !.error = DuplicateError(f.dup, fname)]
                ELSE LET e == collect_validators(attr.element_validators, 1,
                                                 st.all_element_validators, f.seen)
                     IN IF e.dup # ""
                        THEN [st EXCEPT !.error = DuplicateElementError(e.dup, fname)]
                        ELSE parse_attrs_shared_seen(attrs, i + 1, fname,
                                 [st EXCEPT !.all_field_validators = f.all,
                                            !.seen_field_validators = e.seen,
                                            !.all_element_validators = e.all,
                                            !.seen_element_validators = e.seen])

\* The `for attr in &field.attrs` loop of parse_field.
RECURSIVE parse_attrs(_, _, _, _)
parse_attrs(attrs, i, fname, st) ==
    IF i > Len(attrs) THEN st
    ELSE LET attr == attrs[i] IN
        IF ~attr.is_koruma THEN parse_attrs(attrs, i + 1, fname, st)
        ELSE IF ~attr.ok THEN [st EXCEPT !.error = SyntaxError]
        ELSE IF attr.is_skip
            THEN parse_attrs(attrs, i + 1, fname, [st EXCEPT !.is_skip = TRUE])
        ELSE IF attr.is_nested
            THEN parse_attrs(attrs, i + 1, fname, [st EXCEPT !.is_nested = TRUE])
        ELSE IF attr.is_newtype
            THEN parse_attrs(attrs, i + 1, fname, [st EXCEPT !.is_newtype = TRUE])
        ELSE LET f == collect_validators(attr.field_validators, 1,
                                         st.all_field_validators, st.seen_field_validators)
             IN IF f.dup # "" THEN [st EXCEPT !.error = DuplicateError(f.dup, fname)]
                ELSE LET e == collect_validators(attr.element_validators, 1,
                                                 st.all_element_validators,
                                                 st.seen_element_validators)
                     IN IF e.dup # ""
                        THEN [st EXCEPT !.error = DuplicateElementError(e.dup, fname)]
                        ELSE parse_attrs(attrs, i + 1, fname,
                                 [st EXCEPT !.all_field_validators = f.all,
                                            !.seen_field_validators = f.seen,
                                            !.all_element_validators = e.all,
                                            !.seen_element_validators = e.seen])

NoIdent == ""

Field(ident, ty, attrs) == [ident |-> ident, ty |-> ty, attrs |-> attrs]

ParseState0 ==
    [all_field_validators |-> <<>>, all_element_validators |-> <<>>,
     is_skip |-> FALSE, is_nested |-> FALSE, is_newtype |-> FALSE,
     seen_field_validators |-> {}, seen_element_validators |-> {},
     error |-> NoError]

\* A variant that tests the nested and newtype flags before the skip flag.
parse_field_modifier_first(field) ==
    IF field.ident = NoIdent THEN ParseSkip
    ELSE LET st == parse_attrs(field.attrs, 1, field.ident, ParseState0)
         IN IF st.error # NoError THEN ParseError(st.error)
            ELSE IF st.is_nested
                THEN ParseValid(FieldInfo(field.ident, field.ty, st.all_field_validators,
                                          st.all_element_validators, TRUE, FALSE))
            ELSE IF st.is_newtype
                THEN ParseValid(FieldInfo(field.ident, field.ty, st.all_field_validators,
                                          st.all_element_validators, FALSE, TRUE))
            ELSE IF st.is_skip THEN ParseSkip
            ELSE IF st.all_field_validators = <<>> /\ st.all_element_validators = <<>>
                THEN ParseSkip
            ELSE ParseValid(FieldInfo(field.ident, field.ty, st.all_field_validators,
                                      st.all_element_validators, FALSE, FALSE))

parse_field(field) ==
    IF field.ident = NoIdent THEN ParseSkip
    ELSE LET st == parse_attrs(field.attrs, 1, field.ident, ParseState0)
         IN IF st.error # NoError THEN ParseError(st.error)
            ELSE IF st.is_skip THEN ParseSkip
            ELSE IF st.is_nested
                THEN ParseValid(FieldInfo(field.ident, field.ty, st.all_field_validators,
                                          st.all_element_validators, TRUE, FALSE))
            ELSE IF st.is_newtype
                THEN ParseValid(FieldInfo(field.ident, field.ty, st.all_field_validators,
                                          st.all_element_validators, FALSE, TRUE))
            ELSE IF st.all_field_validators = <<>> /\ st.all_element_validators = <<>>
                THEN ParseSkip
            ELSE ParseValid(FieldInfo(field.ident, field.ty, st.all_field_validators,
                                      st.all_element_validators, FALSE, FALSE))

\* ---------------------------------------------------------------- parse_field inputs
Len_ == ValidatorAttr(<<"Len">>, FALSE, NoType)
Range_ == ValidatorAttr(<<"Range">>, FALSE, NoType)
QualifiedLen == ValidatorAttr(<<"validators", "Len">>, TRUE, NoType)
Required == ValidatorAttr(<<"Required">>, FALSE, <<"Option", "_">>)
LowerLen == ValidatorAttr(<<"len">>, FALSE, NoType)

AttrUniverse ==
    {SkipAttr, NestedAttr, NewtypeAttr, MalformedAttr, OtherAttr,
     ValidatorsAttr(<<Len_>>, <<>>),
     ValidatorsAttr(<<Len_, Len_>>, <<>>),
     ValidatorsAttr(<<Len_, Range_>>, <<>>),
     ValidatorsAttr(<<QualifiedLen>>, <<>>),
     ValidatorsAttr(<<>>, <<Len_>>),
     ValidatorsAttr(<<Len_>>, <<Len_>>),
     ValidatorsAttr(<<>>, <<Range_, Range_>>)}

SeqsUpTo(S, n) == UNION {[1..k -> S] : k \in 0..n}

ParseFields == {Field("value", <<"Vec", "i32">>, attrs) : attrs \in SeqsUpTo(AttrUniverse, MaxAttrs)}

\* ---------------------------------------------------------------- derive inputs: placeholders
\* StructOptions::default()
DefaultStructOptions == [try_new |-> FALSE, newtype |-> FALSE]

NoInput == [attrs |-> <<>>, data |-> "named struct", fields |-> <<>>]
NoGen ==
    [status |-> "none", struct_options |-> DefaultStructOptions, field_infos |-> <<>>,
     compiles |-> FALSE, try_new_fn |-> FALSE, newtype_deref_impl |-> "none",
     error |-> NoError]
NoTryNew == [kind |-> "none", args |-> <<>>, value |-> <<>>, error |-> <<>>]
NoCodegenInput == [field_ty |-> NoType, v |-> ValidatorAttr(<<>>, FALSE, NoType), validate_each |-> FALSE]
NoEmitted ==
    [done |-> FALSE, slot_ty |-> NoType, built_ty |-> NoType, builder_calls |-> <<>>,
     substituted |-> NoType]

\* ---------------------------------------------------------------- SpecParse
InitParse ==
    /\ pf_field \in ParseFields
    /\ pf_result = ParseSkip
    /\ pf_done = FALSE
    /\ input = NoInput
    /\ gen = NoGen
    /\ logic = <<>>
    /\ rec = <<>>
    /\ result = "none"
    /\ error = <<>>
    /\ calls = <<>>
    /\ prev_result = "none"
    /\ tn = NoTryNew
    /\ cg_in = NoCodegenInput
    /\ cg_out = NoEmitted
    /\ syn_in = NoText
    /\ syn_out = NoParsed
    /\ shared = NoShared
    /\ threads = NoThreads

ParseField ==
    /\ ~pf_done
    /\ pf_result' = parse_field(pf_field)
    /\ pf_done' = TRUE
    /\ UNCHANGED <<pf_field>>
    /\ UNCHANGED deriveVars
    /\ UNCHANGED codegenVars
    /\ UNCHANGED syntaxVars
    /\ UNCHANGED threadVars

NextParse == ParseField

SpecParse == InitParse /\ [][NextParse]_vars

\* ---------------------------------------------------------------- what the annotations say
\* The koruma occurrences of a field that carry validators, in written order.
RECURSIVE SlotNames(_, _, _)
SlotNames(attrs, i, slot) ==
    IF i > Len(attrs) THEN <<>>
    ELSE LET a == attrs[i]
             vs == IF slot = "field" THEN a.field_validators ELSE a.element_validators
             here == IF a.is_koruma /\ a.ok THEN [k \in 1..Len(vs) |-> name(vs[k])] ELSE <<>>
         IN here \o SlotNames(attrs, i + 1, slot)

Repeats(s) == \E i, j \in 1..Len(s) : i < j /\ s[i] = s[j]
Repeated(s) == {s[i] : i \in {k \in 1..Len(s) : \E j \in 1..Len(s) : j # k /\ s[j] = s[k]}}
Count(s, x) == Cardinality({i \in 1..Len(s) : s[i] = x})

HasMalformed(attrs) == \E i \in 1..Len(attrs) : attrs[i].is_koruma /\ ~attrs[i].ok
HasSkip(attrs) == \E i \in 1..Len(attrs) : attrs[i].is_koruma /\ attrs[i].ok /\ attrs[i].is_skip
HasModifier(attrs) ==
    \E i \in 1..Len(attrs) :
        attrs[i].is_koruma /\ attrs[i].ok /\ (attrs[i].is_nested \/ attrs[i].is_newtype)

FieldSlot == SlotNames(pf_field.attrs, 1, "field")
ElementSlot == SlotNames(pf_field.attrs, 1, "element")

\* ---------------------------------------------------------------- expand_koruma
\* A variant of the field loop that passes over a field it cannot parse.
RECURSIVE parse_fields_swallow(_, _, _)
parse_fields_swallow(fields, i, field_infos) ==
    IF i > Len(fields) THEN [error |-> NoError, field_infos |-> field_infos]
    ELSE LET r == parse_field(fields[i]) IN
        IF r.kind = "Valid" THEN parse_fields_swallow(fields, i + 1, Append(field_infos, r.info))
        ELSE parse_fields_swallow(fields, i + 1, field_infos)

\* The `for field in fields.iter()` loop of expand_koruma.
RECURSIVE parse_fields(_, _, _)
parse_fields(fields, i, field_infos) ==
    IF i > Len(fields) THEN [error |-> NoError, field_infos |-> field_infos]
    ELSE LET r == parse_field(fields[i]) IN
        IF r.kind = "Valid" THEN parse_fields(fields, i + 1, Append(field_infos, r.info))
        ELSE IF r.kind = "Skip" THEN parse_fields(fields, i + 1, field_infos)
        ELSE [error |-> r.error, field_infos |-> <<>>]

NewtypeFieldCountError ==
    [type |-> "newtype structs must have exactly one validated field",
     validator |-> "", field |-> ""]

has_element_validators(f) == f.element_validators # <<>>

\* What `self.field.iter()` yields for a field of type ty (NoType: the type
\* has no iter()): the elements of a Vec, the content of an Option.
iter_item_type(ty) ==
    IF Len(ty) > 1 /\ ty[1] \in {"Vec", "Option"} THEN Tail(ty) ELSE NoType

\* Whether the element loop emitted for f type-checks: the field must have
\* iter(), and the `if let Some(ref __item_value) = item` emitted when
\* element_is_optional must match an item that is an Option.
element_loop_type_checks(f) ==
    IF f.is_nested \/ f.is_newtype \/ ~has_element_validators(f) THEN TRUE
    ELSE LET element_ty == unwrap_or(vec_inner_type(f.ty), f.ty)
             element_is_optional == is_option_type(element_ty)
             item_ty == iter_item_type(f.ty)
         IN /\ item_ty # NoType
            /\ element_is_optional => is_option_type(item_ty)

\* Whether the delegated check emitted for a nested or newtype field
\* type-checks: `<inner_ty as koruma::ValidateExt>::Error` and
\* `.validate()` need the inner type to derive Koruma.
delegated_check_type_checks(f) ==
    (f.is_nested \/ f.is_newtype) =>
        unwrap_or(option_inner_type(f.ty), f.ty) = <<"Inner">>

\* One attribute written on the struct: a koruma one with its option names
\* in order, or another attribute (is_koruma_attr returned None).
StructAttr(options) == [is_koruma |-> TRUE, options |-> options]
OtherStructAttr == [is_koruma |-> FALSE, options |-> <<>>]

UnknownOptionError(other) ==
    [type |-> "unknown struct-level koruma option", option |-> other,
     expected |-> <<"try_new", "newtype">>]

\* StructOptions::parse: the `while !input.is_empty()` loop over the names.
RECURSIVE StructOptions_parse(_, _, _)
StructOptions_parse(names, i, options) ==
    IF i > Len(names) THEN [error |-> NoError, options |-> options]
    ELSE IF names[i] = "try_new"
        THEN StructOptions_parse(names, i + 1, [options EXCEPT !.try_new = TRUE])
    ELSE IF names[i] = "newtype"
        THEN StructOptions_parse(names, i + 1, [options EXCEPT !.newtype = TRUE])
    ELSE [error |-> UnknownOptionError(names[i]), options |-> DefaultStructOptions]

\* parse_struct_options: the first koruma attribute decides.
RECURSIVE parse_struct_options(_, _)
parse_struct_options(attrs, i) ==
    IF i > Len(attrs) THEN [error |-> NoError, options |-> DefaultStructOptions]
    ELSE IF attrs[i].is_koruma
        THEN StructOptions_parse(attrs[i].options, 1, DefaultStructOptions)
    ELSE parse_struct_options(attrs, i + 1)

\* The Deref impl emitted on the aggregate error of a newtype struct: none,
\* one to the inner type's error, or one to the per-field error struct.
newtype_deref_impl(struct_options, field_infos) ==
    IF struct_options.newtype
    THEN LET field_info == field_infos[1] IN
         IF field_info.is_nested
         THEN IF is_option_type(field_info.ty) THEN "none" ELSE "inner error"
         ELSE "field error"
    ELSE "none"

GenError(e) == [NoGen EXCEPT !.status = "error", !.error = e]

NamedFieldsError ==
    [type |-> "Koruma only supports structs with named fields", validator |-> "", field |-> ""]
NotStructError ==
    [type |-> "Koruma can only be derived for structs", validator |-> "", field |-> ""]

\* The `match &input.data` of expand_koruma.
shape_error(inp) ==
    IF inp.data = "named struct" THEN NoError
    ELSE IF inp.data \in {"unnamed struct", "unit struct"} THEN NamedFieldsError
    ELSE NotStructError

\* ---------------------------------------------------------------- the members of the generated error types
to_snake_case(n) ==
    CASE n = "Len" -> "len"
      [] n = "Range" -> "range"
      [] n = "Required" -> "required"
      [] OTHER -> n

to_upper_camel_case(n) ==
    CASE n = "len" -> "Len"
      [] n = "max_len" -> "MaxLen"
      [] OTHER -> n

SlotNamesOf(vs) == {to_snake_case(name(vs[k])) : k \in 1..Len(vs)}

\* The members of the aggregate error struct, one per validated field.
error_fields(field_infos) == [k \in 1..Len(field_infos) |-> field_infos[k].name]

\* The fields of the per-field error struct that hold field-level validators.
\* A nested field has no per-field struct and a newtype field's wrapper has
\* `inner` only.
field_validator_fields(f) ==
    IF f.is_nested \/ f.is_newtype THEN <<>>
    ELSE [k \in 1..Len(f.field_validators) |-> to_snake_case(name(f.field_validators[k]))]

\* The variants of the field's failure enumeration.
enum_variants(f) ==
    IF f.is_nested \/ f.is_newtype THEN <<>>
    ELSE [k \in 1..Len(f.field_validators) |->
             to_upper_camel_case(name(f.field_validators[k]))]

\* The fields of the element error struct.
element_validator_fields(f) ==
    IF f.is_nested \/ f.is_newtype THEN <<>>
    ELSE [k \in 1..Len(f.element_validators) |->
             to_snake_case(name(f.element_validators[k]))]

element_enum_variants(f) ==
    IF f.is_nested \/ f.is_newtype THEN <<>>
    ELSE [k \in 1..Len(f.element_validators) |->
             to_upper_camel_case(name(f.element_validators[k]))]

\* Whether the error types emitted for f type-check: a struct must not
\* have two fields, nor an enum two variants, of one name.
members_type_check(f) ==
    /\ ~Repeats(field_validator_fields(f)) /\ ~Repeats(enum_variants(f))
    /\ ~Repeats(element_validator_fields(f)) /\ ~Repeats(element_enum_variants(f))

\* A variant that rejects a newtype struct only for more than one field.
expand_koruma_at_most_one(inp) ==
    LET so == parse_struct_options(inp.attrs, 1)
        p == parse_fields(inp.fields, 1, <<>>)
    IN
    IF so.error # NoError THEN GenError(so.error)
    ELSE IF shape_error(inp) # NoError THEN GenError(shape_error(inp))
    ELSE IF p.error # NoError THEN GenError(p.error)
    ELSE IF so.options.newtype /\ Len(p.field_infos) > 1
        THEN GenError(NewtypeFieldCountError)
    ELSE [status |-> "ok", struct_options |-> so.options, field_infos |-> p.field_infos,
          compiles |-> \A i \in 1..Len(p.field_infos) :
                           /\ element_loop_type_checks(p.field_infos[i])
                           /\ delegated_check_type_checks(p.field_infos[i])
                           /\ members_type_check(p.field_infos[i]),
          try_new_fn |-> so.options.try_new,
          newtype_deref_impl |-> IF p.field_infos = <<>> THEN "none"
                                 ELSE newtype_deref_impl(so.options, p.field_infos),
          error |-> NoError]

expand_koruma(inp) ==
    LET so == parse_struct_options(inp.attrs, 1)
        p == parse_fields(inp.fields, 1, <<>>)
    IN
    IF so.error # NoError THEN GenError(so.error)
    ELSE IF shape_error(inp) # NoError THEN GenError(shape_error(inp))
    ELSE IF p.error # NoError THEN GenError(p.error)
    ELSE IF so.options.newtype /\ Len(p.field_infos) # 1
        THEN GenError(NewtypeFieldCountError)
    ELSE [status |-> "ok", struct_options |-> so.options, field_infos |-> p.field_infos,
          compiles |-> \A i \in 1..Len(p.field_infos) :
                           /\ element_loop_type_checks(p.field_infos[i])
                           /\ delegated_check_type_checks(p.field_infos[i])
                           /\ members_type_check(p.field_infos[i]),
          try_new_fn |-> so.options.try_new,
          newtype_deref_impl |-> newtype_deref_impl(so.options, p.field_infos),
          error |-> NoError]

\* ---------------------------------------------------------------- values
NoneV == <<"None">>
Some(x) == <<"Some", x>>
IsSome(o) == o[1] = "Some"

RECURSIVE ValuesOf(_)
ValuesOf(ty) ==
    IF ty[1] = "Option" THEN {NoneV} \cup {Some(v) : v \in ValuesOf(Tail(ty))}
    ELSE IF ty[1] = "Vec" THEN {<<"Vec", s>> : s \in SeqsUpTo(ValuesOf(Tail(ty)), MaxLen)}
    ELSE IF ty = <<"Inner">> THEN {<<"Struct", n>> : n \in 0..MaxVal}
    ELSE {<<"Int", n>> : n \in 0..MaxVal}

RECURSIVE RecordsOf(_, _)
RecordsOf(fields, i) ==
    IF i > Len(fields) THEN {<<>>}
    ELSE {(fields[i].ident :> v) @@ r : v \in ValuesOf(fields[i].ty),
                                        r \in RecordsOf(fields, i + 1)}

\* What a validator looks at: a scalar's number, a collection's length, -1
\* for an absent value.
RECURSIVE Measure(_)
Measure(v) ==
    IF v[1] = "None" THEN -1
    ELSE IF v[1] = "Some" THEN Measure(v[2])
    ELSE IF v[1] = "Vec" THEN Len(v[2])
    ELSE v[2]

Measures == -1..(IF MaxVal > MaxLen THEN MaxVal ELSE MaxLen)

\* Validate::validate of the validator named by v returned false on value.
validate_fails(v, value) == Measure(value) \in logic[name(v)]

\* validate() of the nested struct type Inner, which derives Koruma itself.
inner_validate(x) ==
    IF x[2] = 0 THEN Some(<<"InnerKorumaValidationError", x[2]>>) ELSE NoneV

\* ---------------------------------------------------------------- the methods of the generated error types
\* A variant of all() that pushes the later validators first.
RECURSIVE all_pushes_reversed(_, _, _)
all_pushes_reversed(vs, i, slots) ==
    IF i > Len(vs) THEN <<>>
    ELSE LET rest == all_pushes_reversed(vs, i + 1, slots) IN
         IF slots[to_snake_case(name(vs[i]))] # NoneV
         THEN Append(rest, to_upper_camel_case(name(vs[i])))
         ELSE rest

\* `#(#all_pushes)*`: the body of all(), one push per validator whose slot
\* holds a failure.
RECURSIVE all_pushes(_, _, _)
all_pushes(vs, i, slots) ==
    IF i > Len(vs) THEN <<>>
    ELSE LET rest == all_pushes(vs, i + 1, slots) IN
         IF slots[to_snake_case(name(vs[i]))] # NoneV
         THEN <<to_upper_camel_case(name(vs[i]))>> \o rest
         ELSE rest

\* all() of a per-field error struct (no such method on a nested or newtype
\* field's error).
all(f, fe) ==
    IF f.is_nested \/ f.is_newtype THEN <<>>
    ELSE all_pushes(f.field_validators, 1, fe.slots)

\* all() of one element error.
element_all(f, element_error) ==
    all_pushes(f.element_validators, 1, element_error)

element_error_defaults(f) == [s \in SlotNamesOf(f.element_validators) |-> NoneV]

field_error_defaults(f) ==
    IF f.is_nested \/ f.is_newtype
    THEN [inner |-> NoneV, slots |-> <<>>, element_errors |-> <<>>]
    ELSE [inner |-> NoneV,
          slots |-> [s \in SlotNamesOf(f.field_validators) |-> NoneV],
          element_errors |-> <<>>]

InfoOf(field_infos, n) ==
    field_infos[CHOOSE i \in 1..Len(field_infos) : field_infos[i].name = n]

error_defaults(field_infos) ==
    [n \in {field_infos[i].name : i \in 1..Len(field_infos)} |->
        field_error_defaults(InfoOf(field_infos, n))]

\* A variant of the per-field is_empty() that forgets the element errors.
field_is_empty_slots_only(f, fe) ==
    IF f.is_newtype THEN fe.inner = NoneV
    ELSE \A s \in DOMAIN fe.slots : fe.slots[s] = NoneV

\* is_empty() of a per-field error struct (the newtype wrapper included).
field_is_empty(f, fe) ==
    IF f.is_newtype THEN fe.inner = NoneV
    ELSE IF f.field_validators = <<>> THEN fe.element_errors = <<>>
    ELSE /\ \A s \in DOMAIN fe.slots : fe.slots[s] = NoneV
         /\ has_element_validators(f) => fe.element_errors = <<>>

\* A variant that takes an aggregate error without members for non-empty.
is_empty_needs_member(field_infos, err) ==
    /\ field_infos # <<>>
    /\ \A i \in 1..Len(field_infos) :
        LET f == field_infos[i] IN
        IF f.is_nested THEN err[f.name].inner = NoneV
        ELSE field_is_empty(f, err[f.name])

\* ValidationError::is_empty of the aggregate error struct (`true` when
\* there is no member to check).
is_empty(field_infos, err) ==
    \A i \in 1..Len(field_infos) :
        LET f == field_infos[i] IN
        IF f.is_nested THEN err[f.name].inner = NoneV
        ELSE field_is_empty(f, err[f.name])

\* ---------------------------------------------------------------- the generated validate()
\* The type the emitted check instantiates a field-level validator with
\* (NoType: `Validator::builder()` with no turbofish).
field_validator_ty(v, field_ty) ==
    IF v.infer_type \/ (v.explicit_type # NoType /\ contains_infer_type(v.explicit_type))
    THEN IF v.explicit_type # NoType
         THEN IF contains_infer_type(v.explicit_type)
              THEN substitute_infer_type(v.explicit_type,
                       unwrap_or(first_generic_arg(field_ty), field_ty))
              ELSE v.explicit_type
         ELSE effective_validation_type(field_ty, FALSE)
    ELSE NoType

\* The same for an element-level validator.
element_validator_ty(v, field_ty) ==
    LET element_ty == unwrap_or(vec_inner_type(field_ty), field_ty) IN
    IF v.infer_type \/ (v.explicit_type # NoType /\ contains_infer_type(v.explicit_type))
    THEN IF v.explicit_type # NoType
         THEN IF contains_infer_type(v.explicit_type)
              THEN substitute_infer_type(v.explicit_type,
                       unwrap_or(first_generic_arg(element_ty), element_ty))
              ELSE v.explicit_type
         ELSE effective_validation_type(field_ty, TRUE)
    ELSE NoType

\* The validator value the emitted code builds: path, type argument, and the
\* value given to with_value().
Built(v, ty, value) == [validator |-> v.validator, ty |-> ty, value |-> value]

Call(fname, level, idx, v, ty, value) ==
    [field |-> fname, level |-> level, idx |-> idx, validator |-> name(v),
     ty |-> ty, value |-> value]

\* One emitted field-level check: build the validator, run it, store it in
\* its slot when it fails.
generate_validator_check(v, f, value, st) ==
    LET ty == field_validator_ty(v, f.ty)
        st1 == [st EXCEPT !.calls = Append(@, Call(f.name, "field", -1, v, ty, value))]
    IN IF validate_fails(v, value)
       THEN [st1 EXCEPT !.error[f.name].slots[to_snake_case(name(v))] =
                            Some(Built(v, ty, value)),
                        !.has_error = TRUE]
       ELSE st1

\* `#(#checks)*`: the emitted checks of a list of validators, in order.
RECURSIVE run_checks(_, _, _, _, _)
run_checks(vs, i, f, value, st) ==
    IF i > Len(vs) THEN st
    ELSE run_checks(vs, i + 1, f, value, generate_validator_check(vs[i], f, value, st))

\* One emitted element-level check.
element_validator_check(v, f, idx, item_value, est) ==
    LET ty == element_validator_ty(v, f.ty)
        est1 == [est EXCEPT !.calls = Append(@, Call(f.name, "element", idx, v, ty, item_value))]
    IN IF validate_fails(v, item_value)
       THEN [est1 EXCEPT !.element_error[to_snake_case(name(v))] =
                             Some(Built(v, ty, item_value)),
                         !.element_has_error = TRUE]
       ELSE est1

RECURSIVE run_element_checks(_, _, _, _, _, _)
run_element_checks(vs, i, f, idx, item_value, est) ==
    IF i > Len(vs) THEN est
    ELSE run_element_checks(vs, i + 1, f, idx, item_value,
             element_validator_check(vs[i], f, idx, item_value, est))

\* inner_element_validation: a fresh element error, every element check, and
\* one (idx, element_error) entry when any of them failed.
inner_element_validation(f, idx, item_value, st) ==
    LET est == run_element_checks(f.element_validators, 1, f, idx, item_value,
                   [element_error |-> element_error_defaults(f),
                    element_has_error |-> FALSE, calls |-> st.calls])
    IN IF est.element_has_error
       THEN [st EXCEPT !.error[f.name].element_errors = Append(@, <<idx, est.element_error>>),
                       !.has_error = TRUE,
                       !.calls = est.calls]
       ELSE [st EXCEPT !.calls = est.calls]

\* self.field.iter(): the elements of a Vec, the content of an Option.
iter(value) ==
    IF value[1] = "Vec" THEN value[2]
    ELSE IF value[1] = "Some" THEN <<value[2]>>
    ELSE <<>>

\* A variant of the element loop that leaves at the first element with a failure.
RECURSIVE element_loop_break(_, _, _, _)
element_loop_break(f, items, k, st) ==
    IF k > Len(items) THEN st
    ELSE LET element_ty == unwrap_or(vec_inner_type(f.ty), f.ty)
             st1 == IF is_option_type(element_ty)
                    THEN IF IsSome(items[k])
                         THEN inner_element_validation(f, k - 1, items[k][2], st)
                         ELSE st
                    ELSE inner_element_validation(f, k - 1, items[k], st)
         IN IF st1.error[f.name].element_errors # st.error[f.name].element_errors THEN st1
            ELSE element_loop_break(f, items, k + 1, st1)

\* `for (idx, item) in self.field.iter().enumerate()`; items[k] has idx k - 1.
RECURSIVE element_loop(_, _, _, _)
element_loop(f, items, k, st) ==
    IF k > Len(items) THEN st
    ELSE LET element_ty == unwrap_or(vec_inner_type(f.ty), f.ty)
             element_is_optional == is_option_type(element_ty)
         IN IF element_is_optional
            THEN IF IsSome(items[k])
                 THEN element_loop(f, items, k + 1,
                          inner_element_validation(f, k - 1, items[k][2], st))
                 ELSE element_loop(f, items, k + 1, st)
            ELSE element_loop(f, items, k + 1,
                     inner_element_validation(f, k - 1, items[k], st))

element_validation(f, self_value, st) ==
    IF has_element_validators(f) THEN element_loop(f, iter(self_value), 1, st) ELSE st

WantsFull(v) == validator_wants_full_type(v)
WantsUnwrapped(v) == ~validator_wants_full_type(v)

\* A variant that runs the unwrapped validators of an optional field on the
\* Option itself instead of entering `if let Some`.
plain_field_checks_no_unwrap(f, self_value, st) ==
    element_validation(f, self_value,
        run_checks(f.field_validators, 1, f, self_value, st))

\* The emitted checks of a field that carries validators: full-type checks on
\* the field itself, unwrapped checks on the value inside `if let Some` for an
\* optional field, then the element loop.
plain_field_checks(f, self_value, st) ==
    LET full_type_validators == SelectSeq(f.field_validators, WantsFull)
        unwrapped_validators == SelectSeq(f.field_validators, WantsUnwrapped)
        field_is_optional == is_option_type(f.ty)
        has_full_type_validators == full_type_validators # <<>>
        has_unwrapped_validators == unwrapped_validators # <<>>
        full(s) == run_checks(full_type_validators, 1, f, self_value, s)
        if_let_some(s) == IF IsSome(self_value)
                          THEN run_checks(unwrapped_validators, 1, f, self_value[2], s)
                          ELSE s
        direct(s) == run_checks(unwrapped_validators, 1, f, self_value, s)
        elements(s) == element_validation(f, self_value, s)
    IN IF has_full_type_validators /\ has_unwrapped_validators /\ field_is_optional
           THEN elements(if_let_some(full(st)))
       ELSE IF has_full_type_validators /\ has_unwrapped_validators
           THEN elements(direct(full(st)))
       ELSE IF has_full_type_validators
           THEN elements(full(st))
       ELSE IF has_unwrapped_validators /\ field_is_optional
           THEN elements(if_let_some(st))
       ELSE IF has_unwrapped_validators
           THEN elements(direct(st))
       ELSE elements(st)

\* A variant that emits no check for an optional nested or newtype field.
delegated_field_check_required_only(f, self_value, st) ==
    IF is_option_type(f.ty) THEN st
    ELSE LET r == inner_validate(self_value)
         IN IF r # NoneV
            THEN [st EXCEPT !.error[f.name].inner = r, !.has_error = TRUE]
            ELSE st

\* The emitted check of a nested or newtype field: delegate to the inner
\* value's validate(), only when present for an Option.
delegated_field_check(f, self_value, st) ==
    LET inner_value == IF is_option_type(f.ty)
                       THEN IF IsSome(self_value) THEN self_value[2] ELSE NoneV
                       ELSE self_value
        r == IF inner_value = NoneV THEN NoneV ELSE inner_validate(inner_value)
    IN IF r # NoneV
       THEN [st EXCEPT !.error[f.name].inner = r, !.has_error = TRUE]
       ELSE st

validation_check(f, self_value, st) ==
    IF f.is_nested \/ f.is_newtype THEN delegated_field_check(f, self_value, st)
    ELSE plain_field_checks(f, self_value, st)

\* `#(#validation_checks)*`: the checks of every field, in declaration order.
RECURSIVE validation_checks(_, _, _, _)
validation_checks(field_infos, i, self, st) ==
    IF i > Len(field_infos) THEN st
    ELSE validation_checks(field_infos, i + 1, self,
             validation_check(field_infos[i], self[field_infos[i].name], st))

\* A variant that starts from the error value of the previous call.
validate_accumulating(field_infos, self) ==
    validation_checks(field_infos, 1, self,
        [error |-> IF result = "none" THEN error_defaults(field_infos) ELSE error,
         has_error |-> FALSE, calls |-> <<>>])

\* The generated validate(&self).
validate(field_infos, self) ==
    validation_checks(field_infos, 1, self,
        [error |-> error_defaults(field_infos), has_error |-> FALSE, calls |-> <<>>])

\* ---------------------------------------------------------------- derive inputs
I32 == <<"i32">>
OptI32 == <<"Option", "i32">>
VecI32 == <<"Vec", "i32">>
VecOptI32 == <<"Vec", "Option", "i32">>
OptVecI32 == <<"Option", "Vec", "i32">>
InnerTy == <<"Inner">>
OptInner == <<"Option", "Inner">>

\* Field declarations: a declared type and the attributes written on it.
FieldDecls ==
    {<<I32, <<ValidatorsAttr(<<Len_, LowerLen>>, <<>>)>> >>,
     <<VecI32, <<ValidatorsAttr(<<Len_>>, <<Len_, LowerLen>>)>> >>,
     <<I32, <<ValidatorsAttr(<<Len_>>, <<>>)>> >>,
     <<I32, <<ValidatorsAttr(<<Len_>>, <<>>), ValidatorsAttr(<<Range_>>, <<>>)>> >>,
     <<I32, <<ValidatorsAttr(<<Required, Len_>>, <<>>)>> >>,
     <<OptI32, <<ValidatorsAttr(<<Len_, Range_>>, <<>>)>> >>,
     <<OptI32, <<ValidatorsAttr(<<Len_, Required>>, <<>>)>> >>,
     <<OptI32, <<ValidatorsAttr(<<Required>>, <<>>)>> >>,
     <<VecI32, <<ValidatorsAttr(<<>>, <<Len_, Range_>>)>> >>,
     <<VecI32, <<ValidatorsAttr(<<Len_>>, <<Range_>>)>> >>,
     <<VecOptI32, <<ValidatorsAttr(<<>>, <<Len_>>)>> >>,
     <<OptVecI32, <<ValidatorsAttr(<<>>, <<Len_>>)>> >>,
     <<OptVecI32, <<ValidatorsAttr(<<Len_>>, <<>>)>> >>,
     <<InnerTy, <<NestedAttr>> >>,
     <<OptInner, <<NestedAttr>> >>,
     <<InnerTy, <<NewtypeAttr>> >>,
     <<OptInner, <<NewtypeAttr>> >>,
     <<InnerTy, <<NestedAttr, ValidatorsAttr(<<Len_>>, <<>>)>> >>,
     <<OptInner, <<ValidatorsAttr(<<Len_, Required>>, <<>>), NestedAttr>> >>,
     <<VecI32, <<NestedAttr, ValidatorsAttr(<<>>, <<Len_>>)>> >>,
     <<I32, <<>> >>,
     <<I32, <<OtherAttr, SkipAttr>> >>,
     <<I32, <<ValidatorsAttr(<<Len_>>, <<>>), ValidatorsAttr(<<Len_>>, <<>>)>> >>,
     <<VecI32, <<ValidatorsAttr(<<>>, <<Len_, Len_>>)>> >>,
     <<I32, <<MalformedAttr>> >>,
     <<I32, <<ValidatorsAttr(<<Len_>>, <<>>), MalformedAttr>> >>,
     <<I32, <<SkipAttr, MalformedAttr>> >>}

\* The declarations that stand next to another one in a two-field struct.
CompanionDecls ==
    {<<I32, <<ValidatorsAttr(<<Len_>>, <<>>)>> >>,
     <<OptI32, <<ValidatorsAttr(<<Len_, Required>>, <<>>)>> >>}

FieldsOf(decls) == [k \in 1..Len(decls) |-> Field(<<"a", "b">>[k], decls[k][1], decls[k][2])]

\* A collection-typed field stands next to the scalar companion only.
Companions(d) ==
    IF d[1] \in {VecI32, VecOptI32, OptVecI32}
    THEN {c \in CompanionDecls : c[1] = I32}
    ELSE CompanionDecls

StructFields ==
    {FieldsOf(<<d>>) : d \in FieldDecls}
    \cup UNION {{FieldsOf(<<d, c>>) : c \in Companions(d)} : d \in FieldDecls}
    \cup UNION {{FieldsOf(<<c, d>>) : c \in Companions(d)} : d \in FieldDecls}

DeriveInput(attrs, fields) == [attrs |-> attrs, data |-> "named struct", fields |-> fields]

\* Items that are not a struct with named fields, with and without
\* annotations of their own.
OtherShapes ==
    {[attrs |-> attrs, data |-> data, fields |-> fields] :
        attrs \in {<<>>, <<StructAttr(<<"try_new">>)>>, <<StructAttr(<<"const_new">>)>>},
        data \in {"unnamed struct", "unit struct", "enum", "union"},
        fields \in {<<>>, <<Field(NoIdent, I32, <<ValidatorsAttr(<<Len_>>, <<>>)>>)>>}}

\* Attributes written on a struct: option lists of a koruma attribute, with
\* and without a name that is not an option, and other attributes.
StructAttrUniverse ==
    {OtherStructAttr, StructAttr(<<"try_new">>), StructAttr(<<"newtype">>),
     StructAttr(<<"const_new">>), StructAttr(<<"try_new", "newtype">>),
     StructAttr(<<"newtype", "const_new">>)}

StructAttrLists == SeqsUpTo(StructAttrUniverse, MaxStructAttrs)

\* The single-field structs that are declared with every attribute list.
OptionDecls ==
    {<<I32, <<ValidatorsAttr(<<Len_>>, <<>>)>> >>,
     <<OptI32, <<ValidatorsAttr(<<Len_, Required>>, <<>>)>> >>,
     <<InnerTy, <<NestedAttr>> >>,
     <<OptInner, <<NestedAttr>> >>,
     <<InnerTy, <<NewtypeAttr>> >>,
     <<OptInner, <<NewtypeAttr>> >>,
     <<I32, <<OtherAttr, SkipAttr>> >>,
     <<I32, <<>> >>,
     <<OptI32, <<OtherAttr>> >>}

Inputs ==
    {DeriveInput(<<>>, fs) : fs \in StructFields}
    \cup {DeriveInput(<<StructAttr(<<"newtype">>)>>, fs) :
             fs \in {g \in StructFields : g[1].ty \in {I32, InnerTy}}}
    \cup {DeriveInput(attrs, FieldsOf(<<d>>)) : attrs \in StructAttrLists, d \in OptionDecls}
    \cup OtherShapes

ValidatorNames == {"Len", "Range", "Required", "len"}

\* What the validators reject: the usual reading (Len rejects 0, Range
\* rejects the largest value, Required rejects an absent value) and
\* validators that reject everything.
LogicChoices ==
    {[n \in ValidatorNames |->
        CASE n = "Len" -> {0} [] n = "Range" -> {MaxVal} [] OTHER -> {-1}],
     [n \in ValidatorNames |-> Measures]}

\* ---------------------------------------------------------------- Spec
Init ==
    /\ input \in Inputs
    /\ logic \in LogicChoices
    /\ gen = NoGen
    /\ rec = <<>>
    /\ result = "none"
    /\ error = <<>>
    /\ calls = <<>>
    /\ prev_result = "none"
    /\ tn = NoTryNew
    /\ pf_field = Field(NoIdent, NoType, <<>>)
    /\ pf_result = ParseSkip
    /\ pf_done = FALSE
    /\ cg_in = NoCodegenInput
    /\ cg_out = NoEmitted
    /\ syn_in = NoText
    /\ syn_out = NoParsed
    /\ shared = NoShared
    /\ threads = NoThreads

\* The derive macro runs on the struct.
Expand ==
    /\ gen.status = "none"
    /\ gen' = expand_koruma(input)
    /\ UNCHANGED <<input, logic, rec, result, error, calls, prev_result, tn>>
    /\ UNCHANGED parseVars
    /\ UNCHANGED codegenVars
    /\ UNCHANGED syntaxVars
    /\ UNCHANGED threadVars

\* The values validate() may be called on next: any value of the struct for
\* the first call, afterwards the last value with at most one field changed.
NextRecords ==
    IF result = "none" THEN RecordsOf(input.fields, 1)
    ELSE UNION {{[rec EXCEPT ![input.fields[k].ident] = v] :
                    v \in ValuesOf(input.fields[k].ty)} : k \in 1..Len(input.fields)}

\* A caller runs validate() on a value of the struct.
Validate ==
    /\ gen.status = "ok"
    /\ gen.compiles
    /\ \E self \in NextRecords :
        LET st == validate(gen.field_infos, self) IN
        /\ rec' = self
        /\ result' = IF st.has_error THEN "Err" ELSE "Ok"
        /\ error' = st.error
        /\ calls' = st.calls
    /\ prev_result' = result
    /\ UNCHANGED <<input, gen, logic, tn>>
    /\ UNCHANGED parseVars
    /\ UNCHANGED codegenVars
    /\ UNCHANGED syntaxVars
    /\ UNCHANGED threadVars

\* What `*error` gives on the aggregate error of a newtype struct.
NoDeref == <<"no Deref impl">>
Panic == <<"panic">>

deref(g, err) ==
    LET fname == g.field_infos[1].name IN
    CASE g.newtype_deref_impl = "field error" -> err[fname]
      [] g.newtype_deref_impl = "inner error" ->
            IF err[fname].inner = NoneV THEN Panic ELSE err[fname].inner[2]
      [] OTHER -> NoDeref

\* What `*error.field()` gives on the wrapper error struct of a newtype
\* field: `self.inner.as_ref().expect(..)`.
field_deref(f, field_error) ==
    IF field_error.inner = NoneV THEN Panic ELSE field_error.inner[2]

\* A variant that returns the instance without validating it.
try_new_unchecked(field_infos, args) ==
    LET instance == args
    IN [kind |-> "Ok", args |-> args, value |-> instance, error |-> <<>>]

\* The emitted try_new: build the instance from the parameters, run
\* validate() on it, return the instance or the error.
try_new(field_infos, args) ==
    LET instance == args
        st == validate(field_infos, instance)
    IN IF st.has_error
       THEN [kind |-> "Err", args |-> args, value |-> <<>>, error |-> st.error]
       ELSE [kind |-> "Ok", args |-> args, value |-> instance, error |-> <<>>]

\* A caller runs try_new() on values for all fields of the struct; the
\* validate() call inside it leaves its trace as any other call does.
TryNew ==
    /\ gen.status = "ok"
    /\ gen.compiles
    /\ gen.try_new_fn
    /\ \E args \in NextRecords :
        LET st == validate(gen.field_infos, args) IN
        /\ tn' = try_new(gen.field_infos, args)
        /\ rec' = args
        /\ result' = IF st.has_error THEN "Err" ELSE "Ok"
        /\ error' = st.error
        /\ calls' = st.calls
    /\ prev_result' = result
    /\ UNCHANGED <<input, gen, logic>>
    /\ UNCHANGED parseVars
    /\ UNCHANGED codegenVars
    /\ UNCHANGED syntaxVars
    /\ UNCHANGED threadVars

Next == Expand \/ Validate \/ TryNew

Spec == Init /\ [][Next]_vars

Names(vs) == [k \in 1..Len(vs) |-> name(vs[k])]

\* ---------------------------------------------------------------- the code generator on one validator
\* The type argument of the validator type emitted for the error slot, its
\* getter and the failure enumeration (NoType: the bare validator path).
validator_type_for_field(v, field_ty, validate_each) ==
    IF v.explicit_type # NoType
    THEN IF contains_infer_type(v.explicit_type)
         THEN substitute_infer_type(v.explicit_type,
                  unwrap_or(first_generic_arg(field_ty), field_ty))
         ELSE v.explicit_type
    ELSE LET after_vec == IF validate_each
                          THEN unwrap_or(vec_inner_type(field_ty), field_ty)
                          ELSE field_ty
             effective_ty == unwrap_or(option_inner_type(after_vec), after_vec)
         IN IF v.infer_type THEN effective_ty ELSE NoType

\* Expressions: <<"Lit", n>>, <<"Path", segments>>, <<"Field", base, member>>,
\* <<"MethodCall", receiver, method>>.
expr_as_simple_ident(expr) ==
    IF expr[1] = "Path" /\ Len(expr[2]) = 1 THEN expr[2][1] ELSE NoIdent

\* A variant that leaves every expression as written.
transform_arg_value_verbatim(arg_value) == arg_value

transform_arg_value(arg_value) ==
    IF expr_as_simple_ident(arg_value) # NoIdent
    THEN <<"MethodCall", <<"Field", "self", expr_as_simple_ident(arg_value)>>, "clone">>
    ELSE arg_value

\* `.#arg_name(#transformed)` for every argument of the validator, in order.
builder_calls(v) ==
    [k \in 1..Len(v.args) |->
        [name |-> v.args[k][1], value |-> transform_arg_value(v.args[k][2])]]

\* Everything the generator emits for one validator of one field.
Emitted(in) ==
    [cg_out EXCEPT
     !.done = TRUE,
     !.slot_ty = validator_type_for_field(in.v, in.field_ty, in.validate_each),
     !.built_ty = IF in.validate_each THEN element_validator_ty(in.v, in.field_ty)
                  ELSE field_validator_ty(in.v, in.field_ty),
     !.builder_calls = builder_calls(in.v)]

\* Declared field types: up to MaxDepth generic constructors around i32.
ChainsOver(ctors, leaves, n) ==
    UNION {{c \o <<l>> : c \in [1..k -> ctors], l \in leaves} : k \in 0..n}

FieldTypes == ChainsOver({"Option", "Vec", "HashSet"}, {"i32"}, MaxDepth)

\* Written type templates of a validator.
Templates == ChainsOver({"Outer", "Option", "&", "[]"}, {"_", "i32"}, MaxDepth)

CodegenValidators ==
    {ValidatorAttr(<<"V">>, FALSE, NoType), ValidatorAttr(<<"V">>, TRUE, NoType)}
    \cup {ValidatorAttr(<<"V">>, t = <<"_">>, IF t = <<"_">> THEN NoType ELSE t) : t \in Templates}

ArgExprs ==
    {<<"Lit", 1>>, <<"Path", <<"min">> >>, <<"Path", <<"limits", "MIN">> >>,
     <<"Field", "self", "min">>}

ArgLists == SeqsUpTo({<<n, e>> : n \in {"min", "max"}, e \in ArgExprs}, MaxArgs)

CodegenInputs ==
    {[field_ty |-> ft, v |-> v, validate_each |-> each] :
        ft \in FieldTypes, v \in CodegenValidators, each \in BOOLEAN}
    \cup {[field_ty |-> <<"i32">>, v |-> [ValidatorAttr(<<"V">>, FALSE, NoType) EXCEPT !.args = args],
          validate_each |-> each] : args \in ArgLists, each \in BOOLEAN}

InitCodegen ==
    /\ cg_in \in CodegenInputs
    /\ cg_out = NoEmitted
    /\ syn_in = NoText
    /\ syn_out = NoParsed
    /\ shared = NoShared
    /\ threads = NoThreads
    /\ pf_field = Field(NoIdent, NoType, <<>>)
    /\ pf_result = ParseSkip
    /\ pf_done = FALSE
    /\ input = NoInput
    /\ gen = NoGen
    /\ logic = <<>>
    /\ rec = <<>>
    /\ result = "none"
    /\ error = <<>>
    /\ calls = <<>>
    /\ prev_result = "none"
    /\ tn = NoTryNew

\* The generator emits the slot, the enumeration variant and the check of
\* the validator.
Emit ==
    /\ ~cg_out.done
    /\ cg_out' = Emitted(cg_in)
    /\ UNCHANGED cg_in
    /\ UNCHANGED parseVars
    /\ UNCHANGED deriveVars
    /\ UNCHANGED syntaxVars
    /\ UNCHANGED threadVars

\* substitute_infer_type is called on the written template with the first
\* generic argument of the field type.
Substitute ==
    /\ cg_in.v.explicit_type # NoType
    /\ cg_out.substituted = NoType
    /\ cg_out' = [cg_out EXCEPT !.substituted =
                      substitute_infer_type(cg_in.v.explicit_type,
                          unwrap_or(first_generic_arg(cg_in.field_ty), cg_in.field_ty))]
    /\ UNCHANGED cg_in
    /\ UNCHANGED parseVars
    /\ UNCHANGED deriveVars
    /\ UNCHANGED syntaxVars
    /\ UNCHANGED threadVars

NextCodegen == Emit \/ Substitute

SpecCodegen == InitCodegen /\ [][NextCodegen]_vars

\* ---------------------------------------------------------------- tokens
\* A token of the attribute's token stream.  A parenthesised group is one
\* token whose g holds the tokens between the parentheses.
Ident(s) == [k |-> "ident", s |-> s, g |-> <<>>]
Punct(s) == [k |-> "punct", s |-> s, g |-> <<>>]
Lit(s) == [k |-> "lit", s |-> s, g |-> <<>>]
Paren(g) == [k |-> "paren", s |-> "", g |-> g]

\* input.peek(Token![..]), input.peek(Ident), input.peek(token::Paren)
peek(ts, p, s) == p <= Len(ts) /\ ts[p].k = "punct" /\ ts[p].s = s
peek_ident(ts, p) == p <= Len(ts) /\ ts[p].k = "ident"
peek_paren(ts, p) == p <= Len(ts) /\ ts[p].k = "paren"

MigrationHint == "use turbofish syntax for type parameters: Validator::<_> not Validator<_>"
UnexpectedToken == "unexpected token"

\* A variant of the segment loop that takes `::` into the path whatever
\* follows it.
RECURSIVE parse_path_through_colons(_, _, _)
parse_path_through_colons(ts, p, segments) ==
    IF ~peek_ident(ts, p) THEN [ok |-> FALSE, segments |-> segments, pos |-> p]
    ELSE
        LET pushed == Append(segments, ts[p].s) IN
        IF peek(ts, p + 1, "::")
        THEN IF peek_ident(ts, p + 2) THEN parse_path_through_colons(ts, p + 2, pushed)
             ELSE [ok |-> TRUE, segments |-> pushed, pos |-> p + 2]
        ELSE [ok |-> TRUE, segments |-> pushed, pos |-> p + 1]

\* The segment loop of ValidatorAttr::parse: an identifier, then `::`
\* followed by an identifier continues, anything else ends the path with
\* the `::` left in the stream.
RECURSIVE parse_path(_, _, _)
parse_path(ts, p, segments) ==
    IF ~peek_ident(ts, p) THEN [ok |-> FALSE, segments |-> segments, pos |-> p]
    ELSE
        LET pushed == Append(segments, ts[p].s) IN
        IF peek(ts, p + 1, "::")
        THEN IF peek(ts, p + 2, "<") THEN [ok |-> TRUE, segments |-> pushed, pos |-> p + 1]
             ELSE IF peek_ident(ts, p + 2) THEN parse_path(ts, p + 2, pushed)
             ELSE [ok |-> TRUE, segments |-> pushed, pos |-> p + 1]
        ELSE [ok |-> TRUE, segments |-> pushed, pos |-> p + 1]

\* `let ty: Type = input.parse()?` on a type of the chain form: `_`, an
\* identifier, or an identifier with one generic argument.
RECURSIVE Type_parse(_, _)
Type_parse(ts, p) ==
    IF peek(ts, p, "_") THEN [ok |-> TRUE, ty |-> <<"_">>, pos |-> p + 1]
    ELSE IF ~peek_ident(ts, p) THEN [ok |-> FALSE, ty |-> NoType, pos |-> p]
    ELSE IF ~peek(ts, p + 1, "<") THEN [ok |-> TRUE, ty |-> <<ts[p].s>>, pos |-> p + 1]
    ELSE
        LET inner == Type_parse(ts, p + 2) IN
        IF inner.ok /\ peek(ts, inner.pos, ">")
        THEN [ok |-> TRUE, ty |-> <<ts[p].s>> \o inner.ty, pos |-> inner.pos + 1]
        ELSE [ok |-> FALSE, ty |-> NoType, pos |-> inner.pos]

\* A variant of the turbofish step that reads `<ty>` without the `::` as
\* if it were the turbofish.
parse_turbofish_or_legacy(ts, p) ==
    LET q == IF peek(ts, p, "::") /\ peek(ts, p + 1, "<") THEN p + 2
             ELSE IF peek(ts, p, "<") THEN p + 1 ELSE 0
        t == Type_parse(ts, q)
    IN
    IF q = 0 THEN [error |-> "", infer_type |-> FALSE, explicit_type |-> NoType, pos |-> p]
    ELSE IF ~t.ok \/ ~peek(ts, t.pos, ">")
    THEN [error |-> "expected >", infer_type |-> FALSE, explicit_type |-> NoType, pos |-> t.pos]
    ELSE [error |-> "", infer_type |-> t.ty = <<"_">>,
          explicit_type |-> IF t.ty = <<"_">> THEN NoType ELSE t.ty, pos |-> t.pos + 1]

\* The turbofish step: (infer_type, explicit_type) and the position after it.
parse_turbofish(ts, p) ==
    IF peek(ts, p, "::")
    THEN IF peek(ts, p + 1, "<")
         THEN IF peek(ts, p + 2, "_")
              THEN IF peek(ts, p + 3, ">")
                   THEN [error |-> "", infer_type |-> TRUE, explicit_type |-> NoType, pos |-> p + 4]
                   ELSE [error |-> "expected >", infer_type |-> FALSE,
                         explicit_type |-> NoType, pos |-> p + 3]
              ELSE LET t == Type_parse(ts, p + 2) IN
                   IF ~t.ok
                   THEN [error |-> "expected type", infer_type |-> FALSE,
                         explicit_type |-> NoType, pos |-> t.pos]
                   ELSE IF ~peek(ts, t.pos, ">")
                   THEN [error |-> "expected >", infer_type |-> FALSE,
                         explicit_type |-> NoType, pos |-> t.pos]
                   ELSE [error |-> "", infer_type |-> FALSE, explicit_type |-> t.ty,
                         pos |-> t.pos + 1]
         ELSE [error |-> "", infer_type |-> FALSE, explicit_type |-> NoType, pos |-> p]
    ELSE IF peek(ts, p, "<")
    THEN [error |-> MigrationHint, infer_type |-> FALSE, explicit_type |-> NoType, pos |-> p]
    ELSE [error |-> "", infer_type |-> FALSE, explicit_type |-> NoType, pos |-> p]

\* The argument loop: name, `=`, a value (a literal or an identifier), and
\* a comma if one follows.
RECURSIVE parse_args(_, _, _)
parse_args(content, p, args) ==
    IF p > Len(content) THEN [error |-> "", args |-> args]
    ELSE IF ~peek_ident(content, p) THEN [error |-> "expected identifier", args |-> args]
    ELSE IF ~peek(content, p + 1, "=") THEN [error |-> "expected =", args |-> args]
    ELSE IF ~(p + 2 <= Len(content) /\ content[p + 2].k \in {"lit", "ident"})
    THEN [error |-> "expected expression", args |-> args]
    ELSE
        LET pushed == Append(args, <<content[p].s, content[p + 2].s>>) IN
        IF peek(content, p + 3, ",") THEN parse_args(content, p + 4, pushed)
        ELSE parse_args(content, p + 3, pushed)

ParsedValidator(leading_colon, segments, infer, explicit, args) ==
    [leading_colon |-> leading_colon, validator |-> segments, infer_type |-> infer,
     explicit_type |-> explicit, args |-> args]

NoValidator == ParsedValidator(FALSE, <<>>, FALSE, NoType, <<>>)

\* impl Parse for ValidatorAttr, started at position p of ts.
ValidatorAttr_parse(ts, p) ==
    LET leading_colon == peek(ts, p, "::")
        path == parse_path(ts, IF leading_colon THEN p + 1 ELSE p, <<>>)
        turbofish == parse_turbofish(ts, path.pos)
        has_args == peek_paren(ts, turbofish.pos)
        arguments == IF has_args THEN parse_args(ts[turbofish.pos].g, 1, <<>>)
                     ELSE [error |-> "", args |-> <<>>]
    IN
    IF ~path.ok THEN [error |-> "expected identifier", v |-> NoValidator, pos |-> path.pos]
    ELSE IF turbofish.error # ""
    THEN [error |-> turbofish.error, v |-> NoValidator, pos |-> turbofish.pos]
    ELSE IF arguments.error # ""
    THEN [error |-> arguments.error, v |-> NoValidator, pos |-> turbofish.pos]
    ELSE [error |-> "",
          v |-> ParsedValidator(leading_colon, path.segments, turbofish.infer_type,
                                turbofish.explicit_type, arguments.args),
          pos |-> IF has_args THEN turbofish.pos + 1 ELSE turbofish.pos]

\* The loop inside each(...): validators, a comma after each or the end.
\* pos is where the loop stopped inside the group.  (r ranges over the one
\* result of the call, so the call is evaluated once.)
RECURSIVE parse_each(_, _, _)
parse_each(content, p, element_validators) ==
    IF p > Len(content)
    THEN [error |-> "", element_validators |-> element_validators, pos |-> p]
    ELSE CHOOSE out \in {
        IF r.error # ""
        THEN [error |-> r.error, element_validators |-> element_validators, pos |-> r.pos]
        ELSE IF peek(content, r.pos, ",")
        THEN parse_each(content, r.pos + 1, Append(element_validators, r.v))
        ELSE [error |-> "", element_validators |-> Append(element_validators, r.v),
              pos |-> r.pos]
        : r \in {ValidatorAttr_parse(content, p)}} : TRUE

ParsedAttr(err, fvs, evs, skip, nested, newtype) ==
    [done |-> TRUE, ok |-> err = "", error |-> err,
     field_validators |-> fvs, element_validators |-> evs,
     is_skip |-> skip, is_nested |-> nested, is_newtype |-> newtype,
     options |-> DefaultStructOptions]

\* A variant of the item loop that files the validators of an each(...)
\* block with the field-level ones.
RECURSIVE parse_items_flat(_, _, _, _, _)
parse_items_flat(ts, p, fvs, evs, unexpected) ==
    IF p > Len(ts) THEN [error |-> "", fvs |-> fvs, evs |-> evs, pos |-> p,
                         unexpected |-> unexpected]
    ELSE IF peek_ident(ts, p) /\ ts[p].s = "each" /\ peek_paren(ts, p + 1)
    THEN CHOOSE out \in {
        IF e.error # ""
        THEN [error |-> e.error, fvs |-> fvs, evs |-> evs, pos |-> p,
              unexpected |-> unexpected]
        ELSE parse_items_flat(ts, IF peek(ts, p + 2, ",") THEN p + 3 ELSE p + 2,
                              e.element_validators, evs,
                              unexpected \/ e.pos <= Len(ts[p + 1].g))
        : e \in {parse_each(ts[p + 1].g, 1, fvs)}} : TRUE
    ELSE CHOOSE out \in {
        IF r.error # ""
        THEN [error |-> r.error, fvs |-> fvs, evs |-> evs, pos |-> r.pos,
              unexpected |-> unexpected]
        ELSE IF peek(ts, r.pos, ",")
        THEN parse_items_flat(ts, r.pos + 1, Append(fvs, r.v), evs, unexpected)
        ELSE [error |-> "", fvs |-> Append(fvs, r.v), evs |-> evs, pos |-> r.pos,
              unexpected |-> unexpected]
        : r \in {ValidatorAttr_parse(ts, p)}} : TRUE

\* The item loop of KorumaAttr::parse.  unexpected records that a group was
\* left with unread tokens, which the end of the parse reports.
RECURSIVE parse_items(_, _, _, _, _)
parse_items(ts, p, fvs, evs, unexpected) ==
    IF p > Len(ts) THEN [error |-> "", fvs |-> fvs, evs |-> evs, pos |-> p,
                         unexpected |-> unexpected]
    ELSE IF peek_ident(ts, p) /\ ts[p].s = "each" /\ peek_paren(ts, p + 1)
    THEN CHOOSE out \in {
        IF e.error # ""
        THEN [error |-> e.error, fvs |-> fvs, evs |-> evs, pos |-> p,
              unexpected |-> unexpected]
        ELSE parse_items(ts, IF peek(ts, p + 2, ",") THEN p + 3 ELSE p + 2, fvs,
                         e.element_validators,
                         unexpected \/ e.pos <= Len(ts[p + 1].g))
        : e \in {parse_each(ts[p + 1].g, 1, evs)}} : TRUE
    ELSE CHOOSE out \in {
        IF r.error # ""
        THEN [error |-> r.error, fvs |-> fvs, evs |-> evs, pos |-> r.pos,
              unexpected |-> unexpected]
        ELSE IF peek(ts, r.pos, ",")
        THEN parse_items(ts, r.pos + 1, Append(fvs, r.v), evs, unexpected)
        ELSE [error |-> "", fvs |-> Append(fvs, r.v), evs |-> evs, pos |-> r.pos,
              unexpected |-> unexpected]
        : r \in {ValidatorAttr_parse(ts, p)}} : TRUE

\* attr.parse_args::<KorumaAttr>(): impl Parse for KorumaAttr on the whole
\* stream, then the check that nothing was left unread.
KorumaAttr_parse(ts) ==
    IF Len(ts) = 1 /\ peek_ident(ts, 1) /\ ts[1].s = "skip"
    THEN ParsedAttr("", <<>>, <<>>, TRUE, FALSE, FALSE)
    ELSE IF Len(ts) = 1 /\ peek_ident(ts, 1) /\ ts[1].s = "nested"
    THEN ParsedAttr("", <<>>, <<>>, FALSE, TRUE, FALSE)
    ELSE IF Len(ts) = 1 /\ peek_ident(ts, 1) /\ ts[1].s = "newtype"
    THEN ParsedAttr("", <<>>, <<>>, FALSE, FALSE, TRUE)
    ELSE
        LET r == parse_items(ts, 1, <<>>, <<>>, FALSE) IN
        IF r.error # "" THEN ParsedAttr(r.error, <<>>, <<>>, FALSE, FALSE, FALSE)
        ELSE IF r.unexpected \/ r.pos <= Len(ts)
        THEN ParsedAttr(UnexpectedToken, <<>>, <<>>, FALSE, FALSE, FALSE)
        ELSE ParsedAttr("", r.fvs, r.evs, FALSE, FALSE, FALSE)

\* impl Parse for StructOptions on a token stream: an identifier, then a
\* comma if one follows.
RECURSIVE StructOptions_parse_stream(_, _, _)
StructOptions_parse_stream(ts, p, options) ==
    IF p > Len(ts) THEN [error |-> "", options |-> options]
    ELSE IF ~peek_ident(ts, p) THEN [error |-> "expected identifier", options |-> options]
    ELSE IF ts[p].s \notin {"try_new", "newtype"}
    THEN [error |-> "unknown struct-level koruma option", options |-> options]
    ELSE
        LET set == IF ts[p].s = "try_new" THEN [options EXCEPT !.try_new = TRUE]
                   ELSE [options EXCEPT !.newtype = TRUE]
        IN StructOptions_parse_stream(ts, IF peek(ts, p + 1, ",") THEN p + 2 ELSE p + 1, set)

\* ---------------------------------------------------------------- written text
\* One validator as written: generic is "none", "turbofish" (`::<ty>`) or
\* "legacy" (`<ty>`); commas says whether its arguments are separated by
\* commas.
Written(lead, path, generic, ty, args, commas) ==
    [lead |-> lead, path |-> path, generic |-> generic, ty |-> ty, args |-> args,
     commas |-> commas]

RECURSIVE path_tokens(_, _)
path_tokens(path, i) ==
    IF i > Len(path) THEN <<>>
    ELSE (IF i = 1 THEN <<>> ELSE <<Punct("::")>>) \o <<Ident(path[i])>>
         \o path_tokens(path, i + 1)

RECURSIVE type_tokens(_)
type_tokens(ty) ==
    IF Len(ty) = 1 THEN <<IF ty[1] = "_" THEN Punct("_") ELSE Ident(ty[1])>>
    ELSE <<Ident(ty[1]), Punct("<")>> \o type_tokens(Tail(ty)) \o <<Punct(">")>>

Literals == {"0", "5"}

RECURSIVE arg_tokens(_, _, _)
arg_tokens(args, i, commas) ==
    IF i > Len(args) THEN <<>>
    ELSE <<Ident(args[i][1]), Punct("="),
           IF args[i][2] \in Literals THEN Lit(args[i][2]) ELSE Ident(args[i][2])>>
         \o (IF commas /\ i < Len(args) THEN <<Punct(",")>> ELSE <<>>)
         \o arg_tokens(args, i + 1, commas)

validator_tokens(w) ==
    (IF w.lead THEN <<Punct("::")>> ELSE <<>>)
    \o path_tokens(w.path, 1)
    \o (IF w.generic = "turbofish" THEN <<Punct("::"), Punct("<")>> \o type_tokens(w.ty)
                                        \o <<Punct(">")>>
        ELSE IF w.generic = "legacy" THEN <<Punct("<")>> \o type_tokens(w.ty) \o <<Punct(">")>>
        ELSE <<>>)
    \o (IF w.args = <<>> THEN <<>> ELSE <<Paren(arg_tokens(w.args, 1, w.commas))>>)

RECURSIVE each_tokens(_, _, _)
each_tokens(vs, i, commas) ==
    IF i > Len(vs) THEN <<>>
    ELSE validator_tokens(vs[i])
         \o (IF commas /\ i < Len(vs) THEN <<Punct(",")>> ELSE <<>>)
         \o each_tokens(vs, i + 1, commas)

\* One item of a field annotation: a validator (vs holds it alone) or an
\* each(...) block around vs; commas says whether the validators inside the
\* block are separated by commas, sep whether a comma follows the item.
Item(kind, vs, commas, sep) == [kind |-> kind, vs |-> vs, commas |-> commas, sep |-> sep]

item_tokens(it) ==
    (IF it.kind = "each" THEN <<Ident("each"), Paren(each_tokens(it.vs, 1, it.commas))>>
     ELSE validator_tokens(it.vs[1]))
    \o (IF it.sep THEN <<Punct(",")>> ELSE <<>>)

\* One option of a struct annotation and whether a comma follows it.
OptionItem(option, sep) == [kind |-> "option", option |-> option, sep |-> sep]

option_tokens(it) == <<Ident(it.option)>> \o (IF it.sep THEN <<Punct(",")>> ELSE <<>>)

RECURSIVE text_tokens(_, _)
text_tokens(items, i) ==
    IF i > Len(items) THEN <<>>
    ELSE (IF items[i].kind = "option" THEN option_tokens(items[i]) ELSE item_tokens(items[i]))
         \o text_tokens(items, i + 1)

WLen == Written(FALSE, <<"Len">>, "none", NoType, <<>>, TRUE)
WQualified == Written(FALSE, <<"a", "b", "V">>, "turbofish", <<"T">>, <<>>, TRUE)
WInfer == Written(FALSE, <<"V">>, "turbofish", <<"_">>, <<>>, TRUE)
WNested == Written(TRUE, <<"a", "V">>, "turbofish", <<"Vec", "_">>, <<<<"min", "0">>>>, TRUE)
WRange == Written(FALSE, <<"Range">>, "none", NoType, <<<<"min", "0">>, <<"max", "5">>>>, TRUE)
WRangeNoComma ==
    Written(FALSE, <<"Range">>, "none", NoType, <<<<"min", "x">>, <<"max", "5">>>>, FALSE)
WLegacy == Written(FALSE, <<"V">>, "legacy", <<"_">>, <<>>, TRUE)
WLegacyQualified == Written(FALSE, <<"a", "V">>, "legacy", <<"T">>, <<<<"min", "0">>>>, TRUE)

WrittenValidators ==
    {WLen, WQualified, WInfer, WNested, WRange, WRangeNoComma, WLegacy, WLegacyQualified}

WrittenEach ==
    {<<<<WLen>>, TRUE>>, <<<<WLen, WInfer>>, TRUE>>, <<<<WLen, WInfer>>, FALSE>>,
     <<<<WQualified, WLegacy>>, TRUE>>}

Items ==
    {Item("v", <<w>>, TRUE, sep) : w \in WrittenValidators, sep \in BOOLEAN}
    \cup {Item("each", e[1], e[2], sep) : e \in WrittenEach, sep \in BOOLEAN}

Modifiers ==
    {<<Item("v", <<Written(FALSE, <<m>>, "none", NoType, <<>>, TRUE)>>, TRUE, FALSE)>> :
        m \in {"skip", "nested", "newtype"}}

OptionItems == {OptionItem(o, sep) : o \in {"try_new", "newtype", "const_new"}, sep \in BOOLEAN}

Texts ==
    {[kind |-> "field", items |-> items, tokens |-> text_tokens(items, 1)] :
        items \in SeqsUpTo(Items, MaxItems) \cup Modifiers}
    \cup {[kind |-> "struct", items |-> items, tokens |-> text_tokens(items, 1)] :
            items \in SeqsUpTo(OptionItems, MaxItems)}

InitSyntax ==
    /\ syn_in \in Texts
    /\ syn_out = NoParsed
    /\ shared = NoShared
    /\ threads = NoThreads
    /\ pf_field = Field(NoIdent, NoType, <<>>)
    /\ pf_result = ParseSkip
    /\ pf_done = FALSE
    /\ input = NoInput
    /\ gen = NoGen
    /\ logic = <<>>
    /\ rec = <<>>
    /\ result = "none"
    /\ error = <<>>
    /\ calls = <<>>
    /\ prev_result = "none"
    /\ tn = NoTryNew
    /\ cg_in = NoCodegenInput
    /\ cg_out = NoEmitted

\* parse_field hands a field's #[koruma(...)] to attr.parse_args().
ParseKorumaAttr ==
    /\ syn_in.kind = "field"
    /\ ~syn_out.done
    /\ syn_out' = KorumaAttr_parse(syn_in.tokens)
    /\ UNCHANGED syn_in
    /\ UNCHANGED parseVars
    /\ UNCHANGED deriveVars
    /\ UNCHANGED codegenVars
    /\ UNCHANGED threadVars

\* parse_struct_options hands the struct's #[koruma(...)] to
\* attr.parse_args::<StructOptions>().
ParseStructOptions ==
    /\ syn_in.kind = "struct"
    /\ ~syn_out.done
    /\ LET r == StructOptions_parse_stream(syn_in.tokens, 1, DefaultStructOptions)
       IN syn_out' = [ParsedAttr(r.error, <<>>, <<>>, FALSE, FALSE, FALSE)
                         EXCEPT !.options = r.options]
    /\ UNCHANGED syn_in
    /\ UNCHANGED parseVars
    /\ UNCHANGED deriveVars
    /\ UNCHANGED codegenVars
    /\ UNCHANGED threadVars

NextSyntax == ParseKorumaAttr \/ ParseStructOptions

SpecSyntax == InitSyntax /\ [][NextSyntax]_vars

\* ---------------------------------------------------------------- concurrent validate
\* Several threads call validate(&self) on one record they share by
\* reference.  A call is a sequence of steps: the prologue that makes the
\* local error value, the check block of each field in turn, the return.
ThreadInputs == {DeriveInput(<<>>, fs) : fs \in StructFields}

InitThreads ==
    /\ input \in ThreadInputs
    /\ logic \in LogicChoices
    /\ gen = expand_koruma(input)
    /\ shared = NoShared
    /\ threads = NoThreads
    /\ rec = <<>>
    /\ result = "none"
    /\ error = <<>>
    /\ calls = <<>>
    /\ prev_result = "none"
    /\ tn = NoTryNew
    /\ pf_field = Field(NoIdent, NoType, <<>>)
    /\ pf_result = ParseSkip
    /\ pf_done = FALSE
    /\ cg_in = NoCodegenInput
    /\ cg_out = NoEmitted
    /\ syn_in = NoText
    /\ syn_out = NoParsed

ThreadsUnchanged ==
    /\ UNCHANGED <<input, gen, logic, rec, result, error, calls, prev_result, tn>>
    /\ UNCHANGED parseVars
    /\ UNCHANGED codegenVars
    /\ UNCHANGED syntaxVars

\* A value of the struct is built and put behind a shared reference.
Share ==
    /\ gen.status = "ok" /\ gen.compiles
    /\ ~shared.set
    /\ \E self \in RecordsOf(input.fields, 1) : shared' = [set |-> TRUE, self |-> self]
    /\ UNCHANGED threads
    /\ ThreadsUnchanged

\* A variant of the prologue that starts with the failure flag set.
validate_prologue_flagged(field_infos) ==
    [NoCall EXCEPT !.pc = 1, !.error = error_defaults(field_infos), !.has_error = TRUE]

\* `let mut error = ..; let mut has_error = false;`
validate_prologue(field_infos) ==
    [NoCall EXCEPT !.pc = 1, !.error = error_defaults(field_infos)]

\* Thread t enters validate(&self).
Enter(t) ==
    /\ shared.set
    /\ threads[t].pc = 0
    /\ threads' = [threads EXCEPT ![t] = validate_prologue(gen.field_infos)]
    /\ UNCHANGED shared
    /\ ThreadsUnchanged

\* Thread t runs the check block of its next field, reading the field
\* through the shared reference and writing its own locals.
Check(t) ==
    LET c == threads[t]
        f == gen.field_infos[c.pc]
        st == validation_check(f, shared.self[f.name],
                  [error |-> c.error, has_error |-> c.has_error, calls |-> c.calls])
    IN
    /\ c.pc \in 1..Len(gen.field_infos)
    /\ threads' = [threads EXCEPT ![t] = [c EXCEPT !.pc = c.pc + 1, !.error = st.error,
                                                   !.has_error = st.has_error,
                                                   !.calls = st.calls]]
    /\ UNCHANGED shared
    /\ ThreadsUnchanged

\* `if has_error { Err(error) } else { Ok(()) }`
Return(t) ==
    LET c == threads[t] IN
    /\ c.pc = Len(gen.field_infos) + 1
    /\ ~c.returned
    /\ threads' = [threads EXCEPT ![t] = [c EXCEPT !.returned = TRUE,
                                           !.result = IF c.has_error THEN "Err" ELSE "Ok"]]
    /\ UNCHANGED shared
    /\ ThreadsUnchanged

NextThreads ==
    \/ Share
    \/ \E t \in Threads : Enter(t)
    \/ \E t \in Threads : Check(t)
    \/ \E t \in Threads : Return(t)

SpecThreads == InitThreads /\ [][NextThreads]_vars

\* ---------------------------------------------------------------- claims on the generated validate()
\* A call of validate() has returned.
Validated == gen.status = "ok" /\ result # "none"

FieldInfos == {gen.field_infos[i] : i \in 1..Len(gen.field_infos)}

Optional(f) == Len(f.ty) > 1 /\ f.ty[1] = "Option"
Collection(f) == Len(f.ty) > 1 /\ f.ty[1] = "Vec"
OptionalCollection(f) == Len(f.ty) > 2 /\ f.ty[1] = "Option" /\ f.ty[2] = "Vec"

\* Written `Validator::<Option<_>>`.
FullOption(v) == v.explicit_type = <<"Option", "_">>

Validators(vs) == {vs[k] : k \in 1..Len(vs)}

\* What a field-level validator v of field f has to judge in the field value
\* x: the value itself, or for an optional field and a validator not written
\* ::<Option<_>> the contained value (Nothing when the field is absent).
Nothing == <<"Nothing">>

Subject(v, f, x) ==
    IF FullOption(v) \/ ~Optional(f) THEN x
    ELSE IF IsSome(x) THEN x[2] ELSE Nothing

FailsOn(v, subject) == subject # Nothing /\ validate_fails(v, subject)

\* The slot of v in the field's member of the aggregate error is populated.
Recorded(f, v) ==
    /\ to_snake_case(name(v)) \in DOMAIN error[f.name].slots
    /\ error[f.name].slots[to_snake_case(name(v))] # NoneV

\* v was run during the call as a check of the given level on field f.
Invoked(f, v, level) ==
    \E k \in 1..Len(calls) :
        /\ calls[k].field = f.name
        /\ calls[k].validator = name(v)
        /\ calls[k].level = level

\* The elements of a collection value that element validators judge: the
\* element itself, or the contained value of an optional element (Nothing
\* when that element is absent).
ElementSubject(f, items, j) ==
    IF f.ty[2] = "Option"
    THEN IF IsSome(items[j]) THEN items[j][2] ELSE Nothing
    ELSE items[j]

FailingOnElement(f, items, j) ==
    {v \in Validators(f.element_validators) : FailsOn(v, ElementSubject(f, items, j))}

PopulatedSlots(slots) == {s \in DOMAIN slots : slots[s] # NoneV}

\* The entry of the element error list of f for index idx, if any.
EntriesFor(f, idx) ==
    {k \in 1..Len(error[f.name].element_errors) : error[f.name].element_errors[k][1] = idx}

\* The member of one field in the aggregate error holds a failure.
Populated(fe) ==
    \/ fe.inner # NoneV
    \/ PopulatedSlots(fe.slots) # {}
    \/ \E k \in 1..Len(fe.element_errors) : PopulatedSlots(fe.element_errors[k][2]) # {}

\* C1: one call of validate yields the complete violation set: for every
\* annotated field and every validator configured on it that fails on the
\* field's current value, the validator's slot in the aggregate error is
\* populated (field-level slots, the per-index element slots of a collection,
\* and the member of a nested or newtype field whose own validate fails),
\* whatever failed before it.
C1_CompleteViolationSet ==
    Validated =>
        \A f \in FieldInfos :
            LET x == rec[f.name] IN
            /\ \A v \in Validators(f.field_validators) :
                   FailsOn(v, Subject(v, f, x)) => Recorded(f, v)
            /\ Collection(f) =>
                   \A j \in 1..Len(x[2]) : \A v \in FailingOnElement(f, x[2], j) :
                       \E k \in EntriesFor(f, j - 1) :
                           error[f.name].element_errors[k][2][to_snake_case(name(v))] # NoneV
            /\ (f.is_nested \/ f.is_newtype) =>
                   LET inner == IF Optional(f)
                                THEN IF IsSome(x) THEN x[2] ELSE Nothing
                                ELSE x
                   IN (inner # Nothing /\ inner_validate(inner) # NoneV) =>
                          error[f.name].inner # NoneV

\* C2: validate returns failure exactly when a slot was populated during the
\* call (a field-level slot, an element slot or a nested member): the error
\* of a failed call has is_empty() = false, and after a successful call the
\* aggregate error built by it has is_empty() = true.
C2_FailsIffPopulated ==
    Validated =>
        /\ (result = "Err") <=> (\E n \in DOMAIN error : Populated(error[n]))
        /\ (result = "Err") => ~is_empty(gen.field_infos, error)
        /\ (result = "Ok") => is_empty(gen.field_infos, error)

\* A failed call whose only failures are element failures of a field that
\* has field-level validators too.
C2_Witness ==
    /\ Validated
    /\ result = "Err"
    /\ \A n \in DOMAIN error : error[n].inner = NoneV /\ PopulatedSlots(error[n].slots) = {}
    /\ \E n \in DOMAIN error : DOMAIN error[n].slots # {} /\ error[n].element_errors # <<>>

Delegated(f) == f.is_nested \/ f.is_newtype

C4_FullTypeSeesOption ==
    Validated =>
        \A f \in {g \in FieldInfos : Optional(g)} :
            \A v \in {w \in Validators(f.field_validators) : FullOption(w)} :
                \E k \in 1..Len(calls) :
                    /\ calls[k] = Call(f.name, "field", -1, v, f.ty, rec[f.name])
                    /\ \A m \in 1..Len(calls) :
                           (calls[m].field = f.name /\ calls[m].validator = name(v)) => m = k

\* C5: exhaustive-collection law: for a collection field with element
\* validators every element is visited (each element validator is run on
\* each element, on the contained value of a present optional element); the
\* element error list holds one entry per index on which an element
\* validator fails and no other, in increasing index order, and the entry of
\* an index holds exactly the element validators failing on that element.
C5_ExhaustiveCollection ==
    Validated =>
        \A f \in {g \in FieldInfos : Collection(g) /\ has_element_validators(g)} :
            LET items == rec[f.name][2]
                ee == error[f.name].element_errors
            IN /\ \A j \in 1..Len(items) : ElementSubject(f, items, j) # Nothing =>
                      \A v \in Validators(f.element_validators) :
                          \E k \in 1..Len(calls) :
                              calls[k] = Call(f.name, "element", j - 1, v,
                                              element_validator_ty(v, f.ty),
                                              ElementSubject(f, items, j))
               /\ {ee[k][1] : k \in 1..Len(ee)} =
                      {j - 1 : j \in {i \in 1..Len(items) : FailingOnElement(f, items, i) # {}}}
               /\ \A k \in 1..(Len(ee) - 1) : ee[k][1] < ee[k + 1][1]
               /\ \A k \in 1..Len(ee) :
                      PopulatedSlots(ee[k][2]) =
                          {to_snake_case(name(v)) : v \in FailingOnElement(f, items, ee[k][1] + 1)}

\* A collection whose element 1 fails while another element passes: the
\* list holds an entry for index 1 and fewer entries than elements.
C5_Witness ==
    /\ Validated
    /\ \E f \in FieldInfos :
        /\ Collection(f)
        /\ Len(error[f.name].element_errors) >= 1
        /\ Len(error[f.name].element_errors) < Len(rec[f.name][2])
        /\ \E k \in 1..Len(error[f.name].element_errors) :
               error[f.name].element_errors[k][1] = 1

\* C6: a field that is both optional and a collection, with element
\* validators, runs its element checks only when the value is present: the
\* generated validate exists, an absent value runs no element validator and
\* leaves the element error list empty, and a present value has the elements
\* of the contained collection judged.
C6_OptionalCollection ==
    gen.status = "ok" =>
        \A f \in {g \in FieldInfos : OptionalCollection(g) /\ has_element_validators(g)} :
            /\ gen.compiles
            /\ Validated =>
                   LET elementCalls == {k \in 1..Len(calls) :
                                           calls[k].field = f.name /\ calls[k].level = "element"}
                   IN IF rec[f.name] = NoneV
                      THEN elementCalls = {} /\ error[f.name].element_errors = <<>>
                      ELSE LET items == rec[f.name][2][2] IN
                           /\ \A k \in elementCalls :
                                  /\ calls[k].idx < Len(items)
                                  /\ calls[k].value = items[calls[k].idx + 1]
                           /\ \A j \in 1..Len(items) : \A v \in Validators(f.element_validators) :
                                  \E k \in elementCalls :
                                      calls[k].idx = j - 1 /\ calls[k].validator = name(v)

\* C7: every call of validate starts from a freshly constructed aggregate
\* error with one member per annotated field and nothing in it, so what a
\* call returns is decided by the record's current value alone: every
\* failure in the returned error is a failure of a configured validator (or
\* of the inner validate) on the current value, also after earlier calls
\* that failed.
C7_FreshErrorEachCall ==
    /\ gen.status = "ok" =>
           LET d == error_defaults(gen.field_infos) IN
           /\ DOMAIN d = {f.name : f \in FieldInfos}
           /\ \A n \in DOMAIN d : ~Populated(d[n]) /\ d[n].element_errors = <<>>
           /\ is_empty(gen.field_infos, d)
    /\ Validated =>
           /\ DOMAIN error = {f.name : f \in FieldInfos}
           /\ (result = "Err") => (\E n \in DOMAIN error : Populated(error[n]))
           /\ \A f \in FieldInfos :
                  LET x == rec[f.name]
                      fe == error[f.name]
                      inner == IF Optional(f) THEN IF IsSome(x) THEN x[2] ELSE Nothing ELSE x
                  IN /\ \A s \in PopulatedSlots(fe.slots) :
                            \E v \in Validators(f.field_validators) :
                                /\ to_snake_case(name(v)) = s
                                /\ FailsOn(v, Subject(v, f, x))
                                /\ fe.slots[s] = Some(Built(v, field_validator_ty(v, f.ty),
                                                            Subject(v, f, x)))
                     /\ fe.inner # NoneV =>
                            /\ f.is_nested \/ f.is_newtype
                            /\ inner # Nothing
                            /\ fe.inner = inner_validate(inner)
                     /\ fe.element_errors # <<>> => Collection(f)
                     /\ \A k \in 1..Len(fe.element_errors) :
                            LET idx == fe.element_errors[k][1] IN
                            /\ idx < Len(x[2])
                            /\ EntriesFor(f, idx) = {k}
                            /\ PopulatedSlots(fe.element_errors[k][2]) # {}
                            /\ \A s \in PopulatedSlots(fe.element_errors[k][2]) :
                                   \E v \in FailingOnElement(f, x[2], idx + 1) :
                                       to_snake_case(name(v)) = s

\* A failing call followed by a call on a value without failures: nothing of
\* the first call is left in the second call's error.
C7_Witness ==
    /\ Validated
    /\ prev_result = "Err"
    /\ result = "Ok"
    /\ \A n \in DOMAIN error : ~Populated(error[n])
    /\ \E f \in FieldInfos : f.field_validators # <<>> /\ ~f.is_nested /\ ~f.is_newtype

\* ---------------------------------------------------------------- claims on parse_field
\* C8: a validator name written twice in one slot of a field (inside one
\* occurrence or across occurrences) makes parse_field fail; the failure is
\* the duplicate error of that slot, naming a repeated validator and the
\* field, whenever every koruma occurrence of the field parses (a malformed
\* occurrence met first is reported as its own syntax error).  The field is
\* never returned as Valid or Skip.
C8_DuplicateRejected ==
    (pf_done /\ (Repeats(FieldSlot) \/ Repeats(ElementSlot))) =>
        /\ pf_result.kind = "Error"
        /\ pf_result.error.type = "syntax" => HasMalformed(pf_field.attrs)
        /\ pf_result.error.type # "syntax" =>
            \/ /\ pf_result.error.type = "duplicate validator"
               /\ pf_result.error.validator \in Repeated(FieldSlot)
               /\ pf_result.error.field = pf_field.ident
            \/ /\ pf_result.error.type = "duplicate element validator"
               /\ pf_result.error.validator \in Repeated(ElementSlot)
               /\ pf_result.error.field = pf_field.ident

\* A duplicate spread over two occurrences, each of them duplicate-free.
C8_Witness ==
    /\ pf_done
    /\ Len(pf_field.attrs) = 2
    /\ \A i \in 1..2 : ~Repeats(Names(pf_field.attrs[i].field_validators))
    /\ Repeats(FieldSlot)
    /\ pf_result.kind = "Error"
    /\ pf_result.error = DuplicateError("Len", "value")

\* C9: a name written once in the field-level slot and once in the
\* element-level slot is accepted: with no repeat inside either slot and no
\* malformed occurrence parse_field does not fail, and unless the field is
\* skipped it is Valid with each slot holding exactly the names written for
\* it, in order.
C9_SlotsIndependent ==
    (/\ pf_done
     /\ ~HasMalformed(pf_field.attrs)
     /\ ~Repeats(FieldSlot) /\ ~Repeats(ElementSlot)
     /\ \E i \in 1..Len(FieldSlot) : Count(ElementSlot, FieldSlot[i]) = 1) =>
        /\ pf_result.kind # "Error"
        /\ ~HasSkip(pf_field.attrs) =>
            /\ pf_result.kind = "Valid"
            /\ Names(pf_result.info.field_validators) = FieldSlot
            /\ Names(pf_result.info.element_validators) = ElementSlot

\* The same name in both slots, written in two separate occurrences.
C9_Witness ==
    /\ pf_done
    /\ pf_result.kind = "Valid"
    /\ Len(pf_field.attrs) = 2
    /\ Names(pf_result.info.field_validators) = <<"Len">>
    /\ Names(pf_result.info.element_validators) = <<"Len">>
    /\ pf_field.attrs[1].element_validators # <<>>
    /\ pf_field.attrs[2].field_validators # <<>>

C11_ModifierImpliesNoValidators ==
    (pf_done /\ pf_result.kind = "Valid"
        /\ (pf_result.info.is_nested \/ pf_result.info.is_newtype)) =>
        /\ pf_result.info.field_validators = <<>>
        /\ pf_result.info.element_validators = <<>>

\* C12: for a field marked nested or newtype, validate stores the result of
\* the inner value's own validate in the field's member: the member is
\* populated exactly when the inner value is present and its validate
\* fails, it then holds exactly the inner error, and an absent optional
\* inner value leaves the member empty.  Nothing else is stored for the
\* field.
C12_DelegatesToInner ==
    Validated =>
        \A f \in {g \in FieldInfos : Delegated(g)} :
            LET x == rec[f.name]
                inner == IF Optional(f) THEN IF IsSome(x) THEN x[2] ELSE Nothing ELSE x
                member == error[f.name].inner
            IN /\ (member # NoneV) <=> (inner # Nothing /\ inner[2] = 0)
               /\ member # NoneV => member = Some(<<"InnerKorumaValidationError", inner[2]>>)
               /\ inner = Nothing => member = NoneV
               /\ PopulatedSlots(error[f.name].slots) = {}
               /\ error[f.name].element_errors = <<>>

\* An optional nested field that is present and whose inner validate fails.
C12_Witness ==
    /\ Validated
    /\ \E f \in FieldInfos :
        /\ Delegated(f) /\ Optional(f)
        /\ IsSome(rec[f.name])
        /\ error[f.name].inner = Some(<<"InnerKorumaValidationError", 0>>)
        /\ result = "Err"

\* ---------------------------------------------------------------- claims on the code generator
CgValidator == cg_in.v
IsCollection(ty) == Len(ty) > 1 /\ ty[1] \in {"Vec", "HashSet"}
StripOption(ty) == IF Len(ty) > 1 /\ ty[1] = "Option" THEN Tail(ty) ELSE ty
\* The validator is written `V::<_>` inside each(..).
ElementInfer ==
    cg_out.done /\ cg_in.validate_each /\ CgValidator.infer_type
        /\ CgValidator.explicit_type = NoType

\* C13 (as stated): on a field typed Collection<Inner>, an element-level
\* `V::<_>` is emitted as V<Inner>, for every collection type.
C13_ElementInferIsInner ==
    (ElementInfer /\ IsCollection(cg_in.field_ty)) =>
        /\ cg_out.slot_ty = Tail(cg_in.field_ty)
        /\ cg_out.built_ty = Tail(cg_in.field_ty)

\* C13 (amended): an element-level `V::<_>` is emitted, in the slot and in
\* the constructed validator alike, as V<T> where T is the element type of a
\* field declared Vec<..> and the declared type of any other field, in both
\* cases with one Option layer removed.
C13_ElementInferVecOnly ==
    ElementInfer =>
        LET ft == cg_in.field_ty
            expected == IF Len(ft) > 1 /\ ft[1] = "Vec" THEN StripOption(Tail(ft))
                        ELSE StripOption(ft)
        IN cg_out.slot_ty = expected /\ cg_out.built_ty = expected

C13_Witness ==
    ElementInfer /\ cg_in.field_ty = <<"HashSet", "i32">>
        /\ cg_out.slot_ty = <<"HashSet", "i32">> /\ cg_out.built_ty = <<"HashSet", "i32">>

\* C14: on a field typed Collection<Inner>, an element-level `V::<Outer<_>>`
\* is emitted as V<Outer<Inner>> in the element error slot (and the failure
\* enumeration, which takes the same type) and in the validator constructed
\* per element, for every Inner.
C14_OuterTemplateEverywhere ==
    (cg_out.done /\ cg_in.validate_each /\ CgValidator.explicit_type = <<"Outer", "_">>
        /\ IsCollection(cg_in.field_ty)) =>
        /\ cg_out.slot_ty = <<"Outer">> \o Tail(cg_in.field_ty)
        /\ cg_out.built_ty = <<"Outer">> \o Tail(cg_in.field_ty)

\* The slot and the constructed validator disagree on a generic element type.
C14_Witness ==
    cg_out.done /\ cg_in.validate_each /\ CgValidator.explicit_type = <<"Outer", "_">>
        /\ cg_in.field_ty = <<"Vec", "Option", "i32">>
        /\ cg_out.slot_ty = <<"Outer", "Option", "i32">>
        /\ cg_out.built_ty = <<"Outer", "i32">>

HasPlaceholder(ty) == \E i \in 1..Len(ty) : ty[i] = "_"

\* C15: substitution replaces every `_` leaf of the written template, at any
\* depth: the type it returns contains no placeholder.
C15_NoPlaceholderLeft ==
    (cg_out.substituted # NoType /\ HasPlaceholder(CgValidator.explicit_type)) =>
        ~HasPlaceholder(cg_out.substituted)

\* A placeholder under a reference is returned as written, and
\* contains_infer_type does not see it: the slot type keeps it.
C15_Witness ==
    /\ CgValidator.explicit_type = <<"Outer", "&", "_">>
    /\ cg_out.substituted = <<"Outer", "&", "_">>
    /\ cg_out.done /\ cg_out.slot_ty = <<"Outer", "&", "_">>

CgArgs == CgValidator.args

\* C16 (as stated): every argument `name = expr` reaches the construction
\* call of `name` as exactly `expr`, whatever the expression, in the order
\* written.
C16_ArgsVerbatim ==
    cg_out.done =>
        /\ Len(cg_out.builder_calls) = Len(CgArgs)
        /\ \A k \in 1..Len(CgArgs) :
            /\ cg_out.builder_calls[k].name = CgArgs[k][1]
            /\ cg_out.builder_calls[k].value = CgArgs[k][2]

\* C16 (amended): arguments are applied in the order written, each to the
\* builder method of its name; the expression is passed as written unless
\* it is a bare single identifier `x`, which is passed as `self.x.clone()`.
C16_ArgsVerbatimButIdent ==
    cg_out.done =>
        /\ Len(cg_out.builder_calls) = Len(CgArgs)
        /\ \A k \in 1..Len(CgArgs) :
            LET expr == CgArgs[k][2]
                bare == expr[1] = "Path" /\ Len(expr[2]) = 1
            IN /\ cg_out.builder_calls[k].name = CgArgs[k][1]
               /\ cg_out.builder_calls[k].value =
                      IF bare THEN <<"MethodCall", <<"Field", "self", expr[2][1]>>, "clone">>
                      ELSE expr

C16_Witness ==
    /\ cg_out.done
    /\ CgArgs = << <<"max", <<"Path", <<"min">> >> >>, <<"min", <<"Lit", 1>> >> >>
    /\ cg_out.builder_calls =
           << [name |-> "max", value |-> <<"MethodCall", <<"Field", "self", "min">>, "clone">>],
              [name |-> "min", value |-> <<"Lit", 1>>] >>

\* ---------------------------------------------------------------- claims on the struct options
KnownOptions == {"try_new", "newtype"}
KorumaStructAttrs == SelectSeq(input.attrs, LAMBDA a : a.is_koruma)
OptionsOf(a) == {a.options[k] : k \in 1..Len(a.options)}

\* The struct's koruma attribute (the one parse_struct_options reads) lists
\* newtype and no unknown name.
CarriesNewtype ==
    /\ KorumaStructAttrs # <<>>
    /\ "newtype" \in OptionsOf(KorumaStructAttrs[1])
    /\ OptionsOf(KorumaStructAttrs[1]) \subseteq KnownOptions

\* A field is annotated when some koruma occurrence on it carries a validator
\* or a modifier and none says skip.
AnnotatedField(field) ==
    LET occ == {field.attrs[i] : i \in {k \in 1..Len(field.attrs) : field.attrs[k].is_koruma}}
    IN /\ ~\E a \in occ : a.is_skip
       /\ \E a \in occ : \/ a.is_nested \/ a.is_newtype
                         \/ a.field_validators # <<>> \/ a.element_validators # <<>>

AnnotatedFields == {k \in 1..Len(input.fields) : AnnotatedField(input.fields[k])}

\* C17: a struct with the newtype option is accepted only with exactly one
\* annotated field; with none, or with two or more, expansion returns an
\* error.
C17_NewtypeExactlyOneField ==
    (gen.status # "none" /\ CarriesNewtype) =>
        /\ gen.status = "ok" => Cardinality(AnnotatedFields) = 1
        /\ Cardinality(AnnotatedFields) # 1 => gen.status = "error"
        /\ (Cardinality(AnnotatedFields) # 1
              /\ gen.error.type \notin {"duplicate validator", "duplicate element validator",
                                        "syntax"})
              => gen.error = NewtypeFieldCountError

C17_Witness ==
    /\ CarriesNewtype
    /\ Cardinality(AnnotatedFields) = 2
    /\ gen.status = "error" /\ gen.error = NewtypeFieldCountError

\* Zero annotated fields are rejected as well.
C17_WitnessNone ==
    /\ CarriesNewtype
    /\ Len(input.fields) = 1 /\ AnnotatedFields = {}
    /\ gen.status = "error" /\ gen.error = NewtypeFieldCountError

\* C18: on every accepted newtype struct the aggregate error dereferences
\* to the error of its single field, whatever the kind of the field.
C18_NewtypeAccessor ==
    (Validated /\ gen.struct_options.newtype /\ result = "Err") =>
        LET f == gen.field_infos[1] IN
        deref(gen, error) = IF f.is_nested THEN error[f.name].inner[2] ELSE error[f.name]

\* A newtype struct around an optional nested field gets no Deref impl.
C18_Witness ==
    /\ Validated /\ gen.struct_options.newtype /\ result = "Err"
    /\ gen.field_infos[1].is_nested /\ Optional(gen.field_infos[1])
    /\ gen.newtype_deref_impl = "none"
    /\ error[gen.field_infos[1].name].inner # NoneV

\* C19: try_new returns the instance built from its arguments exactly when
\* validate passes on it, and otherwise the error validate builds for it;
\* it returns nothing else.
C19_TryNewIsValidate ==
    tn.kind # "none" =>
        LET st == validate(gen.field_infos, tn.args) IN
        /\ tn.kind \in {"Ok", "Err"}
        /\ tn.kind = "Ok" <=> ~st.has_error
        /\ tn.kind = "Ok" => tn.value = tn.args
        /\ tn.kind = "Err" => tn.error = st.error
        /\ DOMAIN tn.args = {input.fields[k].ident : k \in 1..Len(input.fields)}

C19_Witness ==
    /\ tn.kind = "Err"
    /\ \E n \in DOMAIN tn.error : Populated(tn.error[n])
    /\ prev_result = "Ok"

\* C20: an option name that is not try_new or newtype, in whichever koruma
\* attribute of the struct, makes expansion fail with an error naming it and
\* the two allowed names.
C20_UnknownOptionRejected ==
    gen.status # "none" =>
        \A i \in 1..Len(KorumaStructAttrs) :
            LET unknown == OptionsOf(KorumaStructAttrs[i]) \ KnownOptions IN
            unknown # {} =>
                /\ gen.status = "error"
                /\ gen.error.type = "unknown struct-level koruma option"
                /\ gen.error.option \notin KnownOptions
                /\ gen.error.expected = <<"try_new", "newtype">>

\* The unknown name stands in the second koruma attribute and is not read.
C20_Witness ==
    /\ input.attrs = <<StructAttr(<<"try_new">>), StructAttr(<<"const_new">>)>>
    /\ gen.status = "ok"
    /\ gen.struct_options = [try_new |-> TRUE, newtype |-> FALSE]

\* ---------------------------------------------------------------- claims on expansion as a whole
BadOptions ==
    KorumaStructAttrs # <<>> /\ ~(OptionsOf(KorumaStructAttrs[1]) \subseteq KnownOptions)
BadShape == input.data # "named struct"
BadField(field) ==
    \/ HasMalformed(field.attrs)
    \/ Repeats(SlotNames(field.attrs, 1, "field"))
    \/ Repeats(SlotNames(field.attrs, 1, "element"))
BadFields == {k \in 1..Len(input.fields) : BadField(input.fields[k])}

\* C21: expansion ends either with the generated code or with one error and
\* nothing else: a struct option, a shape or a field that is invalid makes
\* it return that error, with no code for any field, and a field that
\* fails to parse is never passed over as unannotated.
C21_FailsTerminally ==
    gen.status # "none" =>
        /\ gen.status \in {"ok", "error"}
        /\ (BadOptions \/ BadShape \/ BadFields # {}) => gen.status = "error"
        /\ gen.status = "ok" => gen.error = NoError
        /\ gen.status = "error" =>
            /\ gen.error # NoError
            /\ gen.field_infos = <<>> /\ ~gen.compiles /\ ~gen.try_new_fn
            /\ gen.newtype_deref_impl = "none"
            /\ result = "none" /\ tn.kind = "none"
        /\ BadOptions => gen.error.type = "unknown struct-level koruma option"
        /\ (~BadOptions /\ BadShape) => gen.error \in {NamedFieldsError, NotStructError}
        /\ (~BadOptions /\ ~BadShape /\ BadFields # {}) =>
            LET first == CHOOSE k \in BadFields : \A j \in BadFields : k <= j IN
            /\ gen.error.type \in {"syntax", "duplicate validator", "duplicate element validator"}
            /\ gen.error.field \in {"", input.fields[first].ident}

\* The second field does not parse; nothing is generated for the first.
C21_Witness ==
    /\ gen.status = "error" /\ gen.error = SyntaxError /\ gen.field_infos = <<>>
    /\ Len(input.fields) = 2
    /\ ~BadField(input.fields[1]) /\ AnnotatedField(input.fields[1])
    /\ HasMalformed(input.fields[2].attrs)

AnnotatedInOrder == SelectSeq(input.fields, AnnotatedField)
FieldNamed(n) == input.fields[CHOOSE k \in 1..Len(input.fields) : input.fields[k].ident = n]
Snake(names) == [k \in 1..Len(names) |-> to_snake_case(names[k])]
Camel(names) == [k \in 1..Len(names) |-> to_upper_camel_case(names[k])]
FailedOf(names, slots) ==
    Camel(SelectSeq(names, LAMBDA n : slots[to_snake_case(n)] # NoneV))

RECURSIVE Restrict(_, _, _)
Restrict(b, i, S) ==
    IF i > Len(b) THEN <<>>
    ELSE (IF i \in S THEN <<b[i]>> ELSE <<>>) \o Restrict(b, i + 1, S)

\* a lists elements of b, in the order they have in b.
InOrderOf(a, b) == \E S \in SUBSET (1..Len(b)) : Restrict(b, 1, S) = a

\* What is emitted for f in the written order: all of it on a field with an
\* error struct of its own, and never anything out of order.
Follows(f, emitted, written) ==
    /\ InOrderOf(emitted, written)
    /\ ~Delegated(f) => emitted = written

\* C22: the members of the aggregate error follow the annotated fields in
\* declaration order; the slots, the enumeration variants and the result of
\* all() of every field follow its validators in the order written across
\* its annotation occurrences.
C22_DeclarationOrder ==
    gen.status = "ok" =>
        /\ error_fields(gen.field_infos) =
               [k \in 1..Len(AnnotatedInOrder) |-> AnnotatedInOrder[k].ident]
        /\ \A k \in 1..Len(gen.field_infos) :
            LET f == gen.field_infos[k]
                written == SlotNames(FieldNamed(f.name).attrs, 1, "field")
                written_each == SlotNames(FieldNamed(f.name).attrs, 1, "element")
            IN /\ Follows(f, field_validator_fields(f), Snake(written))
               /\ Follows(f, enum_variants(f), Camel(written))
               /\ Follows(f, element_validator_fields(f), Snake(written_each))
               /\ Follows(f, element_enum_variants(f), Camel(written_each))
               /\ (Validated /\ ~Delegated(f)) =>
                   /\ all(f, error[f.name]) = FailedOf(written, error[f.name].slots)
                   /\ \A e \in 1..Len(error[f.name].element_errors) :
                        element_all(f, error[f.name].element_errors[e][2]) =
                            FailedOf(written_each, error[f.name].element_errors[e][2])

\* Two validators written in two occurrences both fail on a field.
C22_Witness ==
    /\ Validated /\ result = "Err"
    /\ \E k \in 1..Len(gen.field_infos) :
        LET f == gen.field_infos[k] IN
        /\ Len(FieldNamed(f.name).attrs) = 2
        /\ field_validator_fields(f) = <<"len", "range">>
        /\ all(f, error[f.name]) = <<"Len", "Range">>

NoFieldAnnotated ==
    /\ input.data = "named struct"
    /\ input.fields # <<>>
    /\ \A k \in 1..Len(input.fields) :
        \A i \in 1..Len(input.fields[k].attrs) : ~input.fields[k].attrs[i].is_koruma

NoMembers ==
    /\ gen.status = "ok"
    /\ error_fields(gen.field_infos) = <<>>
    /\ Validated => /\ result = "Ok"
                    /\ error = <<>>
                    /\ is_empty(gen.field_infos, error)

\* C23 (as stated): deriving on a struct with named fields none of which
\* carries a koruma annotation succeeds; the aggregate error has no
\* members, is_empty() is true and validate returns success.
C23_NoAnnotatedFieldsSucceeds ==
    (gen.status # "none" /\ NoFieldAnnotated) => NoMembers

\* C23 (amended): the same whenever the struct's options are accepted and
\* do not include newtype; with the newtype option such a struct is
\* rejected for having no validated field.
C23_NoAnnotatedFieldsSucceedsUnlessNewtype ==
    (gen.status # "none" /\ NoFieldAnnotated) =>
        /\ (~BadOptions /\ ~CarriesNewtype) => NoMembers
        /\ CarriesNewtype => gen.status = "error" /\ gen.error = NewtypeFieldCountError
        /\ BadOptions => gen.status = "error"

C23_Witness ==
    /\ NoFieldAnnotated /\ ~CarriesNewtype
    /\ gen.status = "ok" /\ gen.field_infos = <<>>
    /\ Validated /\ result = "Ok" /\ is_empty(gen.field_infos, error)
    /\ prev_result = "Ok"

\* The validators written outside and inside the each(...) blocks of a
\* field annotation, in the written order.
RECURSIVE Outside(_, _)
Outside(items, i) ==
    IF i > Len(items) THEN <<>>
    ELSE (IF items[i].kind = "v" THEN items[i].vs ELSE <<>>) \o Outside(items, i + 1)

RECURSIVE Inside(_, _)
Inside(items, i) ==
    IF i > Len(items) THEN <<>>
    ELSE (IF items[i].kind = "each" THEN items[i].vs ELSE <<>>) \o Inside(items, i + 1)

\* Two validators written with nothing between them but the leading `::`
\* of the second: the tokens are those of one longer path.
Juxtaposed ==
    \E i \in 1..(Len(syn_in.items) - 1) :
        /\ syn_in.items[i].kind = "v" /\ ~syn_in.items[i].sep
        /\ syn_in.items[i + 1].kind = "v" /\ syn_in.items[i + 1].vs[1].lead

FieldText ==
    /\ syn_in.kind = "field" /\ syn_in.items \notin Modifiers /\ syn_out.done
    /\ ~Juxtaposed
StructText == syn_in.kind = "struct" /\ syn_out.done

IsLegacy(w) == w.generic = "legacy"
HasLegacy(it) == \E j \in 1..Len(it.vs) : IsLegacy(it.vs[j])

ArgsSeparated(w) == Len(w.args) >= 2 => w.commas
ItemSeparated(it) ==
    /\ \A j \in 1..Len(it.vs) : ArgsSeparated(it.vs[j])
    /\ (it.kind = "each" /\ Len(it.vs) >= 2) => it.commas

\* The text follows the grammar of the annotation: a non-empty list whose
\* items, validators inside each(...) and arguments are separated by
\* commas, every type parameter written as a turbofish.
Grammatical ==
    /\ syn_in.items # <<>>
    /\ \A i \in 1..Len(syn_in.items) :
        LET it == syn_in.items[i] IN
        /\ it.sep <=> i < Len(syn_in.items)
        /\ it.kind # "option" => ~HasLegacy(it) /\ ItemSeparated(it)

PathAndTypeAsWritten(parsed, written) ==
    /\ Len(parsed) = Len(written)
    /\ \A i \in 1..Len(parsed) :
        /\ parsed[i].validator = written[i].path
        /\ parsed[i].leading_colon = written[i].lead
        /\ parsed[i].infer_type = (written[i].generic = "turbofish" /\ written[i].ty = <<"_">>)
        /\ parsed[i].explicit_type =
              (IF written[i].generic = "turbofish" /\ written[i].ty # <<"_">>
               THEN written[i].ty ELSE NoType)

\* C24: the parsed path of a validator is exactly its written `::`-separated
\* identifiers, and what a turbofish after them holds is taken as the type
\* parameter (a::b::V::<T> gives the path a::b::V and the parameter T);
\* a text that follows the grammar is accepted.
C24_PathStopsBeforeTurbofish ==
    FieldText =>
        /\ Grammatical => syn_out.ok
        /\ syn_out.ok =>
            /\ PathAndTypeAsWritten(syn_out.field_validators, Outside(syn_in.items, 1))
            /\ PathAndTypeAsWritten(syn_out.element_validators, Inside(syn_in.items, 1))

C24_Witness ==
    /\ FieldText /\ syn_out.ok
    /\ \E i \in 1..Len(syn_out.field_validators) :
        /\ syn_out.field_validators[i].validator = <<"a", "b", "V">>
        /\ syn_out.field_validators[i].explicit_type = <<"T">>
    /\ \E i \in 1..Len(syn_out.element_validators) :
        /\ syn_out.element_validators[i].validator = <<"V">>
        /\ syn_out.element_validators[i].infer_type

FirstLegacy == CHOOSE i \in 1..Len(syn_in.items) :
    /\ HasLegacy(syn_in.items[i])
    /\ \A j \in 1..(i - 1) : ~HasLegacy(syn_in.items[j])

\* The parser gets as far as the first legacy validator: every validator
\* item before it is followed by its comma, and so is every validator
\* before it inside its each(...) block.
ReachesLegacy ==
    LET it == syn_in.items[FirstLegacy] IN
    /\ \A j \in 1..(FirstLegacy - 1) : syn_in.items[j].kind = "v" => syn_in.items[j].sep
    /\ (it.kind = "each" /\ ~IsLegacy(it.vs[1])) => it.commas

WritesLegacy == FieldText /\ \E i \in 1..Len(syn_in.items) : HasLegacy(syn_in.items[i])

\* C25: a field annotation in which a validator is written with `<` right
\* after its path is never accepted, and the error is the migration hint
\* whenever the parser gets as far as that validator.
C25_LegacyRejectedWithHint ==
    WritesLegacy =>
        /\ ~syn_out.ok
        /\ ReachesLegacy => syn_out.error = MigrationHint

C25_Witness ==
    /\ WritesLegacy /\ ReachesLegacy
    /\ FirstLegacy > 1
    /\ syn_out.error = MigrationHint

AsParsed(w) ==
    ParsedValidator(w.lead, w.path, w.generic = "turbofish" /\ w.ty = <<"_">>,
                    IF w.generic = "turbofish" /\ w.ty # <<"_">> THEN w.ty ELSE NoType,
                    w.args)

AllAsParsed(written) == [i \in 1..Len(written) |-> AsParsed(written[i])]

\* C26: wherever the each(...) blocks stand among the items of a field
\* annotation, the element-level list is the validators written inside
\* them and the field-level list the validators written outside, each in
\* the written order; a text that follows the grammar is accepted
\* whatever the position of its each(...) blocks.
C26_EachAnywhere ==
    FieldText =>
        /\ Grammatical => syn_out.ok
        /\ syn_out.ok =>
            /\ syn_out.field_validators = AllAsParsed(Outside(syn_in.items, 1))
            /\ syn_out.element_validators = AllAsParsed(Inside(syn_in.items, 1))

C26_Witness ==
    /\ FieldText /\ syn_out.ok /\ Grammatical
    /\ Len(syn_in.items) = 3
    /\ syn_in.items[1].kind = "v" /\ syn_in.items[2].kind = "each" /\ syn_in.items[3].kind = "v"
    /\ Len(syn_out.field_validators) = 2 /\ Len(syn_out.element_validators) = 2
    /\ syn_out.field_validators[1] # syn_out.field_validators[2]

\* A separating comma is missing between two arguments of a validator or
\* between two struct options.
MissingComma ==
    \/ /\ FieldText
       /\ \E i \in 1..Len(syn_in.items) :
            \E j \in 1..Len(syn_in.items[i].vs) : ~ArgsSeparated(syn_in.items[i].vs[j])
    \/ /\ StructText
       /\ \E i \in 1..(Len(syn_in.items) - 1) : ~syn_in.items[i].sep

\* C29: a text in which two validator arguments or two struct options are
\* written without the comma between them is never accepted.
C29_MissingCommaRejected ==
    MissingComma => ~syn_out.ok

\* Where C29 fails: `try_new newtype` is accepted as both options, and
\* `Range(min = x max = 5)` as a validator with both arguments.
C29_Witness ==
    \/ /\ StructText /\ MissingComma /\ syn_out.ok
       /\ syn_out.options.try_new /\ syn_out.options.newtype
    \/ /\ FieldText /\ MissingComma /\ syn_out.ok
       /\ syn_in.items = <<Item("v", <<WRangeNoComma>>, TRUE, FALSE)>>
       /\ Len(syn_out.field_validators[1].args) = 2

\* What a call made alone on the shared record returns.
Alone == validate(gen.field_infos, shared.self)

ReturnsAsAlone ==
    \A t \in Threads :
        threads[t].returned =>
            /\ threads[t].result = (IF Alone.has_error THEN "Err" ELSE "Ok")
            /\ threads[t].error = Alone.error
            /\ threads[t].calls = Alone.calls

C28_ReadsNeverPanic ==
    (Validated /\ result = "Err") =>
        /\ \A f \in FieldInfos : f.is_newtype => field_deref(f, error[f.name]) # Panic
        /\ gen.struct_options.newtype => deref(gen, error) # Panic

\* The newtype field passed, another field failed, and dereferencing the
\* newtype field's wrapper panics.
C28_Witness ==
    /\ Validated /\ result = "Err"
    /\ \E f \in FieldInfos :
        /\ f.is_newtype
        /\ error[f.name].inner = NoneV
        /\ field_deref(f, error[f.name]) = Panic
        /\ \E g \in FieldInfos : g # f /\ ~Delegated(g) /\ ~field_is_empty(g, error[g.name])

\* C30: in every field error type that expansion emits, the slot names are
\* pairwise distinct and so are the variant names of the failure
\* enumeration, for the field-level and for the element-level validators.
C30_MemberNamesDistinct ==
    gen.status = "ok" =>
        \A f \in FieldInfos :
            /\ ~Repeats(field_validator_fields(f)) /\ ~Repeats(enum_variants(f))
            /\ ~Repeats(element_validator_fields(f)) /\ ~Repeats(element_enum_variants(f))

\* Len and len pass duplicate detection and both become the slot `len`
\* and the variant `Len`.
C30_Witness ==
    /\ gen.status = "ok"
    /\ \E f \in FieldInfos :
        /\ ~Repeats([k \in 1..Len(f.field_validators) |-> name(f.field_validators[k])])
        /\ field_validator_fields(f) = <<"len", "len">>
        /\ enum_variants(f) = <<"Len", "Len">>
====
